---- MODULE Spec2Model ----
(***************************************************************************)
(* A model of bolomoty: span metrics (api/tree_sitter/mod.rs), the clean   *)
(* pass (clean.rs), the Python and Rust reducers (api/tree_sitter/py.rs,   *)
(* rs.rs) and the multi-file orchestrator (consolidate.rs, api/fs.rs).     *)
(*                                                                         *)
(* Text is a sequence of byte values (Rust &[u8] / &str); a decoded text   *)
(* is a sequence of Unicode scalar values.  Three specifications share the *)
(* variables: SpecMeta (metadata_from_span as a pure function), SpecClean  *)
(* (clean as a pure function) and Spec (a batch run of folder/recursive).  *)
(***************************************************************************)
EXTENDS Integers, Sequences, FiniteSets, TLC

VARIABLES
    \* ---- SpecMeta: one call of metadata_from_span(src, start, end)
    ms_src, ms_start, ms_end, ms_out, ms_pc,
    \* ---- SpecClean: clean(path, source, nodes), possibly run a second time
    cl_path, cl_source, cl_nodes, cl_out, cl_out2, cl_pc,
    \* ---- Spec: one batch of consolidate::folder / consolidate::recursive
    root_kind,   \* what the path argument names: "dir" | "file"
    disk,        \* the files under the root: rel_path -> [content, fault]
    mode,        \* "folder" | "recursive"
    lang,        \* "py" | "rs"  (the &dyn Lang handed in by main.rs)
    jobs,        \* number of rayon threads
    files,       \* the Vec<fs::File> the batch iterates over
    st,          \* per item: "todo" | "running" | "ok" | "err" | "skipped"
    slot,        \* per item: what the map closure returned
    full,        \* rayon while_some: a None has been seen
    saved_error, \* rayon Result collect: Mutex<Option<E>>
    done_order,  \* the items in the order their closures returned
    outcome,     \* what folder/recursive returned
    phase,       \* "start" | "map" | "returned"
    \* ---- SpecResolve: one call of resolve_call(name, imports)
    rv_lang, rv_name, rv_imports, rv_out, rv_pc,
    \* ---- SpecReduce: one call of Lang::parse on a source and its tree
    rd_lang, rd_src, rd_tree, rd_out, rd_pc,
    \* ---- SpecRun: one run of the command line (main.rs run)
    args_output,  \* --output was given
    args_force,   \* --force
    args_dry_run, \* --dry-run
    run_pc,       \* where run() stands
    run_result,   \* what run() returned
    dest,         \* what the destination path holds: "absent" | "old" | "new" | "partial"
    dest0,        \* what it held when the run began
    tmp,          \* the temporary file: "none" | "empty" | "partial" | "full"
    writes,       \* how many times the destination was replaced
    \* ---- SpecQualify: one call of qualify(prefix, name)
    qf_lang, qf_prefix, qf_name, qf_out, qf_pc

msVars == <<ms_src, ms_start, ms_end, ms_out, ms_pc>>
clVars == <<cl_path, cl_source, cl_nodes, cl_out, cl_out2, cl_pc>>
coVars == <<root_kind, disk, mode, lang, jobs, files, st, slot, full, saved_error,
            done_order, outcome, phase>>
rvVars == <<rv_lang, rv_name, rv_imports, rv_out, rv_pc>>
rdVars == <<rd_lang, rd_src, rd_tree, rd_out, rd_pc>>
cliVars == <<args_output, args_force, args_dry_run, run_pc, run_result, dest, dest0,
             tmp, writes>>

qfVars == <<qf_lang, qf_prefix, qf_name, qf_out, qf_pc>>

vars == <<msVars, clVars, coVars, rvVars, rdVars, cliVars, qfVars>>

----------------------------------------------------------------------------
\* Bounds of the model

\* longest byte buffer handed to metadata_from_span in SpecMeta
MaxSrcLen == 4
\* most nodes in a tree handed to clean in SpecClean
MaxNodes == 4
\* most files of the wanted extension under the root in Spec
MaxFiles == 3
\* largest value of the -j option in Spec
MaxJobs == 1
\* execution units of the machine (what -j 0 stands for)
Cores == 2
\* how many of the catalogue's sources a file on disk is drawn from in Spec
MaxContents == 1

----------------------------------------------------------------------------
\* Generic helpers

Range(s) == {s[i] : i \in 1..Len(s)}

RECURSIVE SeqsUpTo(_, _)
\* all sequences over S of length <= n
SeqsUpTo(S, n) ==
    IF n = 0 THEN {<<>>}
    ELSE LET shorter == SeqsUpTo(S, n - 1)
         IN  shorter \cup {Append(s, x) : s \in {t \in shorter : Len(t) = n - 1}, x \in S}

RECURSIVE SumSeq(_)
SumSeq(s) == IF s = <<>> THEN 0 ELSE s[1] + SumSeq(Tail(s))

None == [tag |-> "None"]

----------------------------------------------------------------------------
\* Text: bytes, UTF-8 decoding, whitespace

\* a slice that is clamped to the buffer instead of refused
SliceGet_clamped(src, start, end) ==
    [tag |-> "Some",
     val |-> SubSeq(src, start + 1, IF end <= Len(src) THEN end ELSE Len(src))]

\* <[u8]>::get(start..end): None when start > end or end > len
SliceGet(src, start, end) ==
    IF start <= end /\ end <= Len(src)
    THEN [tag |-> "Some", val |-> SubSeq(src, start + 1, end)]
    ELSE None

RECURSIVE from_utf8(_)
\* std::str::from_utf8 restricted to one- and two-byte encodings: Ok(chars)
\* or Err.  A lead byte 0xC2..0xDF needs one continuation byte 0x80..0xBF.
from_utf8(b) ==
    IF b = <<>> THEN [ok |-> TRUE, chars |-> <<>>]
    ELSE IF b[1] < 128
    THEN LET r == from_utf8(Tail(b))
         IN  [ok |-> r.ok, chars |-> IF r.ok THEN <<b[1]>> \o r.chars ELSE <<>>]
    ELSE IF b[1] \in 194..223 /\ Len(b) >= 2 /\ b[2] \in 128..191
    THEN LET r == from_utf8(SubSeq(b, 3, Len(b)))
         IN  [ok |-> r.ok,
              chars |-> IF r.ok THEN <<(b[1] - 192) * 64 + (b[2] - 128)>> \o r.chars
                        ELSE <<>>]
    ELSE [ok |-> FALSE, chars |-> <<>>]

\* char::is_whitespace (Unicode White_Space)
WhiteSpace ==
    (9..13) \cup {32, 133, 160, 5760, 8232, 8233, 8239, 8287, 12288} \cup (8192..8202)

is_whitespace(c) == c \in WhiteSpace

RECURSIVE Count(_, _)
\* Iterator::filter(p).count(): one pass over the characters
\* (P is the set of characters the predicate accepts)
Count(text, P) ==
    IF text = <<>> THEN 0
    ELSE (IF text[1] \in P THEN 1 ELSE 0) + Count(Tail(text), P)

RECURSIVE split_whitespace(_, _, _)
\* str::split_whitespace: the non-empty pieces between runs of whitespace.
\* cur is the piece being read, acc the pieces finished so far.
split_whitespace(text, cur, acc) ==
    IF text = <<>> THEN (IF cur = <<>> THEN acc ELSE Append(acc, cur))
    ELSE IF is_whitespace(text[1])
    THEN split_whitespace(Tail(text), <<>>, IF cur = <<>> THEN acc ELSE Append(acc, cur))
    ELSE split_whitespace(Tail(text), Append(cur, text[1]), acc)

----------------------------------------------------------------------------
\* Span metrics (api/tree_sitter/mod.rs)

Metadata(c, l, w, ws, nl) ==
    [chars |-> c, lines |-> l, words |-> w, whitespaces |-> ws, newlines |-> nl]

\* |c| *c == '\n'   and   |c| c.is_whitespace() && *c != '\n'
IsNewline == {10}
IsSpaceNotNewline == {c \in WhiteSpace : is_whitespace(c) /\ c # 10}

\* metadata_from_span with the line count taken as the newline count
metadata_from_span_lines(src, start, end) ==
    LET got     == SliceGet(src, start, end)
        slice   == IF got.tag = "Some" THEN got.val ELSE <<>>
        dec     == from_utf8(slice)
        text    == IF dec.ok THEN dec.chars ELSE <<>>
        newlines == Count(text, IsNewline)
    IN  Metadata(Len(text),
                 newlines,
                 Len(split_whitespace(text, <<>>, <<>>)),
                 Count(text, IsSpaceNotNewline),
                 newlines)

metadata_from_span(src, start, end) ==
    LET got     == SliceGet(src, start, end)
        slice   == IF got.tag = "Some" THEN got.val ELSE <<>>
        dec     == from_utf8(slice)
        text    == IF dec.ok THEN dec.chars ELSE <<>>
        newlines == Count(text, IsNewline)
    IN  Metadata(Len(text),
                 newlines + 1,
                 Len(split_whitespace(text, <<>>, <<>>)),
                 Count(text, IsSpaceNotNewline),
                 newlines)

----------------------------------------------------------------------------
\* Symbol tree (api/tree_sitter/mod.rs) and paths

\* ASTNode: File(path) | Function(name) | Type(name) | Call(name) | Comment
ASTNode(tag, val) == [tag |-> tag, val |-> val]
CommentNode == ASTNode("Comment", <<>>)

Syntax(node, metadata, contains) ==
    [node |-> node, metadata |-> metadata, contains |-> contains]

\* A path is a list of components, absolute or relative to the walk root.
Path(abs, comps) == [abs |-> abs, comps |-> comps]

RECURSIVE JoinWith(_, _)
JoinWith(parts, sep) ==
    IF parts = <<>> THEN <<>>
    ELSE IF Len(parts) = 1 THEN parts[1]
    ELSE parts[1] \o sep \o JoinWith(Tail(parts), sep)

\* Path::display().to_string(): the components joined by '/', with a
\* leading '/' for an absolute path (components are valid UTF-8 here)
PathDisplay(p) == (IF p.abs THEN <<47>> ELSE <<>>) \o JoinWith(p.comps, <<47>>)

----------------------------------------------------------------------------
\* Normalization (clean.rs)

AddMeta(acc, m) ==
    Metadata(acc.chars + m.chars, acc.lines + m.lines, acc.words + m.words,
             acc.whitespaces + m.whitespaces, acc.newlines + m.newlines)

RECURSIVE strip_comments_fresh_acc(_, _)
\* strip_comments that hands a fresh accumulator to the recursion into the
\* children, so that the metrics of nested comments are lost
strip_comments_fresh_acc(nodes, acc) ==
    IF nodes = <<>> THEN [out |-> <<>>, acc |-> acc]
    ELSE LET s == nodes[1]
         IN  IF s.node.tag = "Comment"
             THEN strip_comments_fresh_acc(Tail(nodes), AddMeta(acc, s.metadata))
             ELSE LET inner == strip_comments_fresh_acc(s.contains, Metadata(0, 0, 0, 0, 0))
                      rest  == strip_comments_fresh_acc(Tail(nodes), acc)
                  IN  [out |-> <<[s EXCEPT !.contains = inner.out]>> \o rest.out,
                       acc |-> rest.acc]

RECURSIVE strip_comments_shallow(_, _)
\* strip_comments that does not descend into the children
strip_comments_shallow(nodes, acc) ==
    IF nodes = <<>> THEN [out |-> <<>>, acc |-> acc]
    ELSE LET s == nodes[1]
         IN  IF s.node.tag = "Comment"
             THEN strip_comments_shallow(Tail(nodes), AddMeta(acc, s.metadata))
             ELSE LET rest == strip_comments_shallow(Tail(nodes), acc)
                  IN  [out |-> <<s>> \o rest.out, acc |-> rest.acc]

RECURSIVE strip_comments_no_lines(_, _)
\* strip_comments that leaves the lines of the comments out of the total
strip_comments_no_lines(nodes, acc) ==
    IF nodes = <<>> THEN [out |-> <<>>, acc |-> acc]
    ELSE LET s == nodes[1]
         IN  IF s.node.tag = "Comment"
             THEN strip_comments_no_lines(Tail(nodes),
                    [AddMeta(acc, s.metadata) EXCEPT !.lines = acc.lines])
             ELSE LET inner == strip_comments_no_lines(s.contains, acc)
                      rest  == strip_comments_no_lines(Tail(nodes), inner.acc)
                  IN  [out |-> <<[s EXCEPT !.contains = inner.out]>> \o rest.out,
                       acc |-> rest.acc]

RECURSIVE strip_comments(_, _)
\* filter_map over the nodes in order, threading the accumulator: a Comment
\* is added to acc and dropped, any other node keeps its place and has its
\* children stripped.  Returns the stripped nodes and the final acc.
strip_comments(nodes, acc) ==
    IF nodes = <<>> THEN [out |-> <<>>, acc |-> acc]
    ELSE LET s == nodes[1]
         IN  IF s.node.tag = "Comment"
             THEN strip_comments(Tail(nodes), AddMeta(acc, s.metadata))
             ELSE LET inner == strip_comments(s.contains, acc)
                      rest  == strip_comments(Tail(nodes), inner.acc)
                  IN  [out |-> <<[s EXCEPT !.contains = inner.out]>> \o rest.out,
                       acc |-> rest.acc]

\* clean that returns nothing for an empty tree
clean_skip_empty(path, source, nodes) ==
    LET r         == strip_comments(nodes, Metadata(0, 0, 0, 0, 0))
        file_meta == metadata_from_span(source, 0, Len(source))
        file_node == Syntax(ASTNode("File", PathDisplay(path)), file_meta, <<>>)
    IN  IF nodes = <<>> THEN <<>>
        ELSE <<file_node>>
             \o (IF r.acc.chars > 0 THEN <<Syntax(CommentNode, r.acc, <<>>)>> ELSE <<>>)
             \o r.out

\* clean that emits the aggregated Comment even when it is zero-valued
clean_always_comment(path, source, nodes) ==
    LET r         == strip_comments(nodes, Metadata(0, 0, 0, 0, 0))
        file_meta == metadata_from_span(source, 0, Len(source))
        file_node == Syntax(ASTNode("File", PathDisplay(path)), file_meta, <<>>)
    IN  <<file_node>> \o <<Syntax(CommentNode, r.acc, <<>>)>> \o r.out

\* clean that drops a File node already at the head of its input
clean_dedup_file(path, source, nodes) ==
    LET body      == IF nodes # <<>> /\ nodes[1].node.tag = "File"
                     THEN Tail(nodes) ELSE nodes
        r         == strip_comments(body, Metadata(0, 0, 0, 0, 0))
        file_meta == metadata_from_span(source, 0, Len(source))
        file_node == Syntax(ASTNode("File", PathDisplay(path)), file_meta, <<>>)
    IN  <<file_node>>
        \o (IF r.acc.chars > 0 THEN <<Syntax(CommentNode, r.acc, <<>>)>> ELSE <<>>)
        \o r.out

clean(path, source, nodes) ==
    LET comment_meta == Metadata(0, 0, 0, 0, 0)
        r            == strip_comments(nodes, comment_meta)
        file_meta    == metadata_from_span(source, 0, Len(source))
        file_node    == Syntax(ASTNode("File", PathDisplay(path)), file_meta, <<>>)
    IN  <<file_node>>
        \o (IF r.acc.chars > 0 THEN <<Syntax(CommentNode, r.acc, <<>>)>> ELSE <<>>)
        \o r.out

----------------------------------------------------------------------------
\* The concrete syntax tree handed over by the grammar engine (tree_sitter::Node)
\*   kind       the node kind
\*   start, end the byte span
\*   kids       the named children, in document order
\*   fld        the field name of each named child ("" when it has none)

Node(kind, start, end, fld, kids) ==
    [kind |-> kind, start |-> start, end |-> end, fld |-> fld, kids |-> kids]

FieldIndex(node, field) ==
    IF \E i \in 1..Len(node.kids) : node.fld[i] = field
    THEN CHOOSE i \in 1..Len(node.kids) :
            node.fld[i] = field /\ \A j \in 1..(i - 1) : node.fld[j] # field
    ELSE 0

\* Node::child_by_field_name
child_by_field_name(node, field) ==
    IF FieldIndex(node, field) = 0 THEN None
    ELSE [tag |-> "Some", val |-> node.kids[FieldIndex(node, field)]]

\* Node::utf8_text(src).ok(): the bytes of the span when they are valid UTF-8
utf8_text(node, src) ==
    LET b == SubSeq(src, node.start + 1, node.end)
    IN  IF from_utf8(b).ok THEN [tag |-> "Some", val |-> b] ELSE None

\* .unwrap_or("") / .unwrap_or_default() on an Option of a string or list
UnwrapOrEmpty(opt) == IF opt.tag = "Some" THEN opt.val ELSE <<>>

\* field_text (py.rs and rs.rs hold the same helper)
field_text(node, field, src) ==
    LET c == child_by_field_name(node, field)
    IN  IF c.tag = "Some" THEN UnwrapOrEmpty(utf8_text(c.val, src)) ELSE <<>>

\* meta (py.rs and rs.rs hold the same helper)
meta(node, src) == metadata_from_span(src, node.start, node.end)

RECURSIVE Flat(_)
\* Vec::extend / push in loop order: the concatenation of the pieces
Flat(ss) == IF ss = <<>> THEN <<>> ELSE ss[1] \o Flat(Tail(ss))

\* String helpers -----------------------------------------------------------

IsPrefixAt(s, pat, i) ==
    /\ i + Len(pat) - 1 <= Len(s)
    /\ \A k \in 1..Len(pat) : s[i + k - 1] = pat[k]

\* first position at which pat occurs in s, 0 when it does not
FindFirst(s, pat) ==
    IF \E i \in 1..Len(s) : IsPrefixAt(s, pat, i)
    THEN CHOOSE i \in 1..Len(s) :
            IsPrefixAt(s, pat, i) /\ \A j \in 1..(i - 1) : ~IsPrefixAt(s, pat, j)
    ELSE 0

\* last position at which pat occurs in s, 0 when it does not
FindLast(s, pat) ==
    IF \E i \in 1..Len(s) : IsPrefixAt(s, pat, i)
    THEN CHOOSE i \in 1..Len(s) :
            IsPrefixAt(s, pat, i) /\ \A j \in (i + 1)..Len(s) : ~IsPrefixAt(s, pat, j)
    ELSE 0

\* str::split_once(pat): Some((head, tail)) around the first occurrence
split_once(s, pat) ==
    LET i == FindFirst(s, pat)
    IN  IF i = 0 THEN None
        ELSE [tag |-> "Some",
              head |-> SubSeq(s, 1, i - 1),
              tail |-> SubSeq(s, i + Len(pat), Len(s))]

\* str::ends_with
ends_with(s, pat) ==
    Len(pat) <= Len(s) /\ SubSeq(s, Len(s) - Len(pat) + 1, Len(s)) = pat

\* s.rsplit(pat).next().unwrap_or(s): the piece after the last occurrence
rsplit_first(s, pat) ==
    LET i == FindLast(s, pat)
    IN  IF i = 0 THEN s ELSE SubSeq(s, i + Len(pat), Len(s))

Dot == <<46>>            \* "."
ColonColon == <<58, 58>> \* "::"
Bang_none == <<>>        \* no suffix
Bang == <<33>>           \* "!"
KwSelf == <<115, 101, 108, 102>>    \* "self"
KwSuper == <<115, 117, 112, 101, 114>> \* "super"
KwCrate == <<99, 114, 97, 116, 101>>   \* "crate"
ForInfix == <<32, 102, 111, 114, 32>>  \* " for "

\* HashMap<String, String> as a function; insert overrides
Insert(imports, k, v) == (k :> v) @@ imports

RECURSIVE InsertAll(_, _)
\* the inserts of one collection pass, applied in order
InsertAll(imports, entries) ==
    IF entries = <<>> THEN imports
    ELSE InsertAll(Insert(imports, entries[1][1], entries[1][2]), Tail(entries))

EmptyMap == <<>>

----------------------------------------------------------------------------
\* Python reducer (api/tree_sitter/py.rs)

py_qualify(module, name) ==
    IF module = <<>> THEN name
    ELSE IF ends_with(module, Dot) THEN module \o name
    ELSE module \o Dot \o name

\* the inserts made for one import_statement, in order
py_import_statement(child, src) ==
    Flat([i \in 1..Len(child.kids) |->
        LET n == child.kids[i]
        IN  IF n.kind = "aliased_import"
            THEN LET name  == field_text(n, "name", src)
                     alias == field_text(n, "alias", src)
                 IN  IF alias # <<>> THEN <<<<alias, name>>>> ELSE <<>>
            ELSE <<>>])

\* the inserts made for one import_from_statement, in order
py_import_from_statement(child, src) ==
    LET mn        == child_by_field_name(child, "module_name")
        module    == IF mn.tag = "Some" THEN UnwrapOrEmpty(utf8_text(mn.val, src)) ELSE <<>>
        module_id == FieldIndex(child, "module_name")
    IN  Flat([i \in 1..Len(child.kids) |->
            LET n == child.kids[i]
            IN  IF i = module_id THEN <<>>
                ELSE IF n.kind = "dotted_name"
                THEN LET name == UnwrapOrEmpty(utf8_text(n, src))
                     IN  <<<<name, py_qualify(module, name)>>>>
                ELSE IF n.kind = "aliased_import"
                THEN LET name  == field_text(n, "name", src)
                         alias == field_text(n, "alias", src)
                         key   == IF alias = <<>> THEN name ELSE alias
                     IN  <<<<key, py_qualify(module, name)>>>>
                ELSE <<>>])

RECURSIVE py_collect_imports_inner_deep(_, _)
\* a collection pass that also reads the imports inside function and class
\* bodies
py_collect_imports_inner_deep(node, src) ==
    Flat([i \in 1..Len(node.kids) |->
        LET child == node.kids[i]
        IN  CASE child.kind = "import_statement" -> py_import_statement(child, src)
              [] child.kind = "import_from_statement" -> py_import_from_statement(child, src)
              [] OTHER -> py_collect_imports_inner_deep(child, src)])

RECURSIVE py_collect_imports_inner(_, _)
\* the inserts collect_imports_inner makes below node, in order
py_collect_imports_inner(node, src) ==
    Flat([i \in 1..Len(node.kids) |->
        LET child == node.kids[i]
        IN  CASE child.kind = "import_statement" -> py_import_statement(child, src)
              [] child.kind = "import_from_statement" -> py_import_from_statement(child, src)
              [] child.kind \in {"function_definition", "class_definition"} -> <<>>
              [] OTHER -> py_collect_imports_inner(child, src)])

py_collect_imports(root, src) == InsertAll(EmptyMap, py_collect_imports_inner(root, src))

RECURSIVE py_dotted_name(_, _)
py_dotted_name(node, src) ==
    CASE node.kind = "identifier" -> UnwrapOrEmpty(utf8_text(node, src))
      [] node.kind = "attribute" ->
            LET o    == child_by_field_name(node, "object")
                obj  == IF o.tag = "Some" THEN py_dotted_name(o.val, src) ELSE <<>>
                attr == field_text(node, "attribute", src)
            IN  obj \o Dot \o attr
      [] OTHER -> UnwrapOrEmpty(utf8_text(node, src))

\* a resolution that keeps only the table's path and drops the remaining
\* segments
py_resolve_call_drop_tail(name, imports) ==
    LET sp   == split_once(name, Dot)
        head == IF sp.tag = "Some" THEN sp.head ELSE name
    IN  IF head \in DOMAIN imports THEN imports[head] ELSE name

\* a resolution that substitutes again in its own result
py_resolve_call_chained(name, imports) ==
    LET step(n) ==
            LET sp   == split_once(n, Dot)
                head == IF sp.tag = "Some" THEN sp.head ELSE n
            IN  IF head \in DOMAIN imports
                THEN (IF sp.tag = "Some" THEN imports[head] \o Dot \o sp.tail
                      ELSE imports[head])
                ELSE n
    IN  step(step(name))

py_resolve_call(name, imports) ==
    LET sp   == split_once(name, Dot)
        head == IF sp.tag = "Some" THEN sp.head ELSE name
    IN  IF head \in DOMAIN imports
        THEN (IF sp.tag = "Some" THEN imports[head] \o Dot \o sp.tail ELSE imports[head])
        ELSE name

RECURSIVE py_walk(_, _, _)

py_body_children(node, src, imports) ==
    LET b == child_by_field_name(node, "body")
    IN  IF b.tag = "Some" THEN py_walk(b.val, src, imports) ELSE <<>>

\* what one iteration of walk's loop appends to out
py_walk_child(child, src, imports) ==
    CASE child.kind = "function_definition" ->
            <<Syntax(ASTNode("Function", field_text(child, "name", src)),
                     meta(child, src), py_body_children(child, src, imports))>>
      [] child.kind = "class_definition" ->
            <<Syntax(ASTNode("Type", field_text(child, "name", src)),
                     meta(child, src), py_body_children(child, src, imports))>>
      [] child.kind = "call" ->
            LET f   == child_by_field_name(child, "function")
                raw == IF f.tag = "Some" THEN py_dotted_name(f.val, src) ELSE <<>>
            IN  <<Syntax(ASTNode("Call", py_resolve_call(raw, imports)),
                         meta(child, src), <<>>)>>
      [] child.kind = "expression_statement" ->
            IF Len(child.kids) = 1 /\ child.kids[1].kind = "string"
            THEN <<Syntax(CommentNode, meta(child, src), <<>>)>>
            ELSE py_walk(child, src, imports)
      [] child.kind = "comment" -> <<Syntax(CommentNode, meta(child, src), <<>>)>>
      [] child.kind \in {"import_statement", "import_from_statement",
                         "future_import_statement"} -> <<>>
      [] OTHER -> py_walk(child, src, imports)

\* a walk that visits the children from the last to the first
py_walk_backwards(node, src, imports) ==
    Flat([i \in 1..Len(node.kids) |->
            py_walk_child(node.kids[Len(node.kids) + 1 - i], src, imports)])

py_walk(node, src, imports) ==
    Flat([i \in 1..Len(node.kids) |-> py_walk_child(node.kids[i], src, imports)])

\* Python::parse; tree is None when the grammar engine returned no tree
py_parse(tree, source) ==
    IF tree.tag = "None" THEN [tag |-> "Err", reason |-> "parse returned None"]
    ELSE [tag |-> "Ok",
          val |-> py_walk(tree.val, source, py_collect_imports(tree.val, source))]

----------------------------------------------------------------------------
\* Rust reducer (api/tree_sitter/rs.rs)

rs_qualify(prefix, name) ==
    IF prefix = <<>> THEN name ELSE prefix \o ColonColon \o name

RECURSIVE rs_scoped_path(_, _)
rs_scoped_path(node, src) ==
    CASE node.kind \in {"identifier", "type_identifier", "self", "crate", "super",
                        "metavariable"} -> UnwrapOrEmpty(utf8_text(node, src))
      [] node.kind \in {"scoped_identifier", "scoped_type_identifier"} ->
            LET p      == child_by_field_name(node, "path")
                prefix == IF p.tag = "Some" THEN rs_scoped_path(p.val, src) ELSE <<>>
                name   == field_text(node, "name", src)
            IN  IF prefix = <<>> THEN name ELSE prefix \o ColonColon \o name
      [] OTHER -> UnwrapOrEmpty(utf8_text(node, src))

RECURSIVE rs_collect_use_tree(_, _, _)
\* the inserts collect_use_tree makes for node under prefix, in order
rs_collect_use_tree(node, src, prefix) ==
    CASE node.kind = "self" ->
            IF prefix # <<>>
            THEN <<<<rsplit_first(prefix, ColonColon), prefix>>>>
            ELSE <<>>
      [] node.kind \in {"identifier", "type_identifier"} ->
            LET name == UnwrapOrEmpty(utf8_text(node, src))
            IN  <<<<name, rs_qualify(prefix, name)>>>>
      [] node.kind \in {"scoped_identifier", "scoped_type_identifier"} ->
            LET full_path == rs_scoped_path(node, src)
                local     == field_text(node, "name", src)
            IN  <<<<local, rs_qualify(prefix, full_path)>>>>
      [] node.kind = "use_as_clause" ->
            LET p        == child_by_field_name(node, "path")
                path_str == IF p.tag = "Some" THEN rs_scoped_path(p.val, src) ELSE <<>>
                alias    == field_text(node, "alias", src)
            IN  <<<<alias, rs_qualify(prefix, path_str)>>>>
      [] node.kind = "scoped_use_list" ->
            LET p          == child_by_field_name(node, "path")
                path       == IF p.tag = "Some" THEN rs_scoped_path(p.val, src) ELSE <<>>
                new_prefix == rs_qualify(prefix, path)
            IN  Flat([i \in 1..Len(node.kids) |->
                    IF node.kids[i].kind = "use_list"
                    THEN rs_collect_use_tree(node.kids[i], src, new_prefix)
                    ELSE <<>>])
      [] node.kind = "use_list" ->
            Flat([i \in 1..Len(node.kids) |->
                    rs_collect_use_tree(node.kids[i], src, prefix)])
      [] OTHER -> <<>>

\* only the use declarations directly below the root are read
rs_collect_imports(root, src) ==
    InsertAll(EmptyMap,
        Flat([i \in 1..Len(root.kids) |->
            LET child == root.kids[i]
            IN  IF child.kind = "use_declaration"
                THEN Flat([j \in 1..Len(child.kids) |->
                        rs_collect_use_tree(child.kids[j], src, <<>>)])
                ELSE <<>>]))

RECURSIVE rs_call_name(_, _)
rs_call_name(node, src) ==
    CASE node.kind \in {"identifier", "type_identifier"} ->
            UnwrapOrEmpty(utf8_text(node, src))
      [] node.kind \in {"scoped_identifier", "scoped_type_identifier"} ->
            rs_scoped_path(node, src)
      [] node.kind = "field_expression" ->
            LET v     == child_by_field_name(node, "value")
                obj   == IF v.tag = "Some" THEN rs_call_name(v.val, src) ELSE <<>>
                field == field_text(node, "field", src)
            IN  obj \o Dot \o field
      [] OTHER -> UnwrapOrEmpty(utf8_text(node, src))

\* a resolution that splits at the first "." before it looks for "::"
rs_resolve_call_dot_first(name, imports) ==
    LET cc   == split_once(name, ColonColon)
        dt   == split_once(name, Dot)
        sp   == IF dt.tag = "Some" THEN dt ELSE cc
        sep  == IF dt.tag = "Some" THEN Dot
                ELSE IF cc.tag = "Some" THEN ColonColon ELSE <<>>
        head == IF sp.tag = "Some" THEN sp.head ELSE name
    IN  IF head \in {KwSelf, KwSuper, KwCrate} THEN name
        ELSE IF head \in DOMAIN imports
        THEN (IF sp.tag = "Some" THEN imports[head] \o sep \o sp.tail ELSE imports[head])
        ELSE name

rs_resolve_call(name, imports) ==
    LET cc   == split_once(name, ColonColon)
        dt   == split_once(name, Dot)
        sp   == IF cc.tag = "Some" THEN cc ELSE dt
        sep  == IF cc.tag = "Some" THEN ColonColon
                ELSE IF dt.tag = "Some" THEN Dot ELSE <<>>
        head == IF sp.tag = "Some" THEN sp.head ELSE name
    IN  IF head \in {KwSelf, KwSuper, KwCrate} THEN name
        ELSE IF head \in DOMAIN imports
        THEN (IF sp.tag = "Some" THEN imports[head] \o sep \o sp.tail ELSE imports[head])
        ELSE name

RECURSIVE rs_walk(_, _, _)

rs_body(child, src, imports) ==
    LET b == child_by_field_name(child, "body")
    IN  IF b.tag = "Some" THEN rs_walk(b.val, src, imports) ELSE <<>>

\* what one iteration of walk's loop appends to out
rs_walk_child(child, src, imports) ==
    CASE child.kind = "function_item" ->
            <<Syntax(ASTNode("Function", field_text(child, "name", src)),
                     meta(child, src), rs_body(child, src, imports))>>
      [] child.kind \in {"struct_item", "enum_item", "type_item"} ->
            <<Syntax(ASTNode("Type", field_text(child, "name", src)),
                     meta(child, src), <<>>)>>
      [] child.kind = "trait_item" ->
            <<Syntax(ASTNode("Type", field_text(child, "name", src)),
                     meta(child, src), rs_body(child, src, imports))>>
      [] child.kind = "impl_item" ->
            LET type_name  == field_text(child, "type", src)
                tr         == child_by_field_name(child, "trait")
                trait_name == IF tr.tag = "Some" THEN utf8_text(tr.val, src) ELSE None
                label      == IF trait_name.tag = "Some"
                              THEN trait_name.val \o ForInfix \o type_name
                              ELSE type_name
            IN  <<Syntax(ASTNode("Type", label), meta(child, src),
                         rs_body(child, src, imports))>>
      [] child.kind = "call_expression" ->
            LET f   == child_by_field_name(child, "function")
                raw == IF f.tag = "Some" THEN rs_call_name(f.val, src) ELSE <<>>
            IN  <<Syntax(ASTNode("Call", rs_resolve_call(raw, imports)),
                         meta(child, src), <<>>)>>
      [] child.kind = "macro_invocation" ->
            LET m   == child_by_field_name(child, "macro")
                raw == IF m.tag = "Some" THEN rs_scoped_path(m.val, src) ELSE <<>>
            IN  <<Syntax(ASTNode("Call", rs_resolve_call(raw, imports) \o Bang),
                         meta(child, src), <<>>)>>
      [] child.kind \in {"line_comment", "block_comment"} ->
            <<Syntax(CommentNode, meta(child, src), <<>>)>>
      [] child.kind = "use_declaration" -> <<>>
      [] child.kind \in {"attribute_item", "inner_attribute_item", "mod_item"} -> <<>>
      [] OTHER -> rs_walk(child, src, imports)

\* a walk that gives the method signature of a trait a Function node
rs_walk_with_signatures(node, src, imports) ==
    Flat([i \in 1..Len(node.kids) |->
        IF node.kids[i].kind = "function_signature_item"
        THEN <<Syntax(ASTNode("Function", field_text(node.kids[i], "name", src)),
                      meta(node.kids[i], src), <<>>)>>
        ELSE rs_walk_child(node.kids[i], src, imports)])

rs_walk(node, src, imports) ==
    Flat([i \in 1..Len(node.kids) |-> rs_walk_child(node.kids[i], src, imports)])

\* Rust::parse; tree is None when the grammar engine returned no tree
rs_parse(tree, source) ==
    IF tree.tag = "None" THEN [tag |-> "Err", reason |-> "parse returned None"]
    ELSE [tag |-> "Ok",
          val |-> rs_walk(tree.val, source, rs_collect_imports(tree.val, source))]

\* the dyn Lang dispatch of lang.parse
lang_parse(l, tree, source) ==
    IF l = "py" THEN py_parse(tree, source) ELSE rs_parse(tree, source)

----------------------------------------------------------------------------
\* Sample files: a source text and the tree the grammar engine builds for it
\* (an external input; the byte spans index the source)

\* ""
PyEmptySrc ==
    <<>>
PyEmptyTree ==
    Node("module", 0, 0, <<>>, <<>>)

\* "#a\nh()\n"
PyCallSrc ==
    <<35, 97, 10, 104, 40, 41, 10>>
PyCallTree ==
    Node("module", 0, 7, <<"", "">>,
      <<
        Node("comment", 0, 2, <<>>, <<>>),
        Node("expression_statement", 3, 6, <<"">>,
          <<
            Node("call", 3, 6, <<"function", "arguments">>,
              <<
                Node("identifier", 3, 4, <<>>, <<>>),
                Node("argument_list", 4, 6, <<>>, <<>>)>>)>>)>>)

\* "#a\ndef h():\n g()\n #b k\n"
PyNestedSrc ==
    <<35, 97, 10, 100, 101, 102, 32, 104, 40, 41, 58, 10, 32, 103, 40,
      41, 10, 32, 35, 98, 32, 107, 10>>
PyNestedTree ==
    Node("module", 0, 23, <<"", "">>,
      <<
        Node("comment", 0, 2, <<>>, <<>>),
        Node("function_definition", 3, 22, <<"name", "parameters", "body">>,
          <<
            Node("identifier", 7, 8, <<>>, <<>>),
            Node("parameters", 8, 10, <<>>, <<>>),
            Node("block", 13, 22, <<"", "">>,
              <<
                Node("expression_statement", 13, 16, <<"">>,
                  <<
                    Node("call", 13, 16, <<"function", "arguments">>,
                      <<
                        Node("identifier", 13, 14, <<>>, <<>>),
                        Node("argument_list", 14, 16, <<>>, <<>>)>>)>>),
                Node("comment", 18, 22, <<>>, <<>>)>>)>>)>>)

\* "import q as w\nw.k()\n"
PyAliasSrc ==
    <<105, 109, 112, 111, 114, 116, 32, 113, 32, 97, 115, 32, 119, 10,
      119, 46, 107, 40, 41, 10>>
PyAliasTree ==
    Node("module", 0, 20, <<"", "">>,
      <<
        Node("import_statement", 0, 13, <<"name">>,
          <<
            Node("aliased_import", 7, 13, <<"name", "alias">>,
              <<
                Node("dotted_name", 7, 8, <<"">>,
                  <<
                    Node("identifier", 7, 8, <<>>, <<>>)>>),
                Node("identifier", 12, 13, <<>>, <<>>)>>)>>),
        Node("expression_statement", 14, 19, <<"">>,
          <<
            Node("call", 14, 19, <<"function", "arguments">>,
              <<
                Node("attribute", 14, 17, <<"object", "attribute">>,
                  <<
                    Node("identifier", 14, 15, <<>>, <<>>),
                    Node("identifier", 16, 17, <<>>, <<>>)>>),
                Node("argument_list", 17, 19, <<>>, <<>>)>>)>>)>>)

\* ""
RsEmptySrc ==
    <<>>
RsEmptyTree ==
    Node("source_file", 0, 0, <<>>, <<>>)

\* "//a\nfn h(){g();}\n"
RsCallSrc ==
    <<47, 47, 97, 10, 102, 110, 32, 104, 40, 41, 123, 103, 40, 41, 59,
      125, 10>>
RsCallTree ==
    Node("source_file", 0, 17, <<"", "">>,
      <<
        Node("line_comment", 0, 3, <<>>, <<>>),
        Node("function_item", 4, 16, <<"name", "parameters", "body">>,
          <<
            Node("identifier", 7, 8, <<>>, <<>>),
            Node("parameters", 8, 10, <<>>, <<>>),
            Node("block", 10, 16, <<"">>,
              <<
                Node("expression_statement", 11, 15, <<"">>,
                  <<
                    Node("call_expression", 11, 14, <<"function", "arguments">>,
                      <<
                        Node("identifier", 11, 12, <<>>, <<>>),
                        Node("arguments", 12, 14, <<>>, <<>>)>>)>>)>>)>>)>>)

\* "//a\nstruct S;\nimpl S{\n/*b k*/\nfn h(){}}\n"
RsNestedSrc ==
    <<47, 47, 97, 10, 115, 116, 114, 117, 99, 116, 32, 83, 59, 10, 105,
      109, 112, 108, 32, 83, 123, 10, 47, 42, 98, 32, 107, 42, 47, 10,
      102, 110, 32, 104, 40, 41, 123, 125, 125, 10>>
RsNestedTree ==
    Node("source_file", 0, 40, <<"", "", "">>,
      <<
        Node("line_comment", 0, 3, <<>>, <<>>),
        Node("struct_item", 4, 13, <<"name">>,
          <<
            Node("type_identifier", 11, 12, <<>>, <<>>)>>),
        Node("impl_item", 14, 39, <<"type", "body">>,
          <<
            Node("type_identifier", 19, 20, <<>>, <<>>),
            Node("declaration_list", 20, 39, <<"", "">>,
              <<
                Node("block_comment", 22, 29, <<>>, <<>>),
                Node("function_item", 30, 38, <<"name", "parameters", "body">>,
                  <<
                    Node("identifier", 33, 34, <<>>, <<>>),
                    Node("parameters", 34, 36, <<>>, <<>>),
                    Node("block", 36, 38, <<>>, <<>>)>>)>>)>>)>>)

\* "use q::k;\nk!();k();\n"
RsUseSrc ==
    <<117, 115, 101, 32, 113, 58, 58, 107, 59, 10, 107, 33, 40, 41, 59,
      107, 40, 41, 59, 10>>
RsUseTree ==
    Node("source_file", 0, 20, <<"", "", "">>,
      <<
        Node("use_declaration", 0, 9, <<"argument">>,
          <<
            Node("scoped_identifier", 4, 8, <<"path", "name">>,
              <<
                Node("identifier", 4, 5, <<>>, <<>>),
                Node("identifier", 7, 8, <<>>, <<>>)>>)>>),
        Node("expression_statement", 10, 15, <<"">>,
          <<
            Node("macro_invocation", 10, 14, <<"macro", "">>,
              <<
                Node("identifier", 10, 11, <<>>, <<>>),
                Node("token_tree", 12, 14, <<>>, <<>>)>>)>>),
        Node("expression_statement", 15, 19, <<"">>,
          <<
            Node("call_expression", 15, 18, <<"function", "arguments">>,
              <<
                Node("identifier", 15, 16, <<>>, <<>>),
                Node("arguments", 16, 18, <<>>, <<>>)>>)>>)>>)


\* the sources a file of the language can hold, with their syntax trees
Catalogue(l) ==
    IF l = "py"
    THEN <<[src |-> PyNestedSrc, tree |-> PyNestedTree],
           [src |-> PyAliasSrc, tree |-> PyAliasTree],
           [src |-> PyCallSrc, tree |-> PyCallTree],
           [src |-> PyEmptySrc, tree |-> PyEmptyTree]>>
    ELSE <<[src |-> RsNestedSrc, tree |-> RsNestedTree],
           [src |-> RsUseSrc, tree |-> RsUseTree],
           [src |-> RsCallSrc, tree |-> RsCallTree],
           [src |-> RsEmptySrc, tree |-> RsEmptyTree]>>

----------------------------------------------------------------------------
\* Discovery (api/fs.rs)

BoloError(kind, where, reason) == [kind |-> kind, where |-> where, reason |-> reason]
Ok(v) == [tag |-> "Ok", val |-> v, err |-> None]
Err(e) == [tag |-> "Err", val |-> <<>>, err |-> e]

\* the extension main.rs pairs with each language
ExtOf(l) == IF l = "py" THEN <<112, 121>> ELSE <<114, 115>>

\* the canonical root directory, "/r"
RootComps == << <<114>> >>

\* fs::File { path, rel_path }
File(rel) == [path |-> Path(TRUE, RootComps \o rel), rel_path |-> Path(FALSE, rel)]

AsciiLower(t) == [i \in 1..Len(t) |-> IF t[i] \in 65..90 THEN t[i] + 32 ELSE t[i]]

\* Path::extension: what follows the last '.' of the file name, unless the
\* name has no '.' or only a leading one
Extension(comps) ==
    LET name == comps[Len(comps)]
        i    == FindLast(name, Dot)
    IN  IF i <= 1 THEN None ELSE [tag |-> "Some", val |-> SubSeq(name, i + 1, Len(name))]

matches_ext(comps, ext) ==
    LET e == Extension(comps)
    IN  e.tag = "Some" /\ AsciiLower(e.val) = AsciiLower(ext)

RECURSIVE BytesLess(_, _)
\* OsStr ordering: byte-wise lexicographic
BytesLess(a, b) ==
    IF b = <<>> THEN FALSE
    ELSE IF a = <<>> THEN TRUE
    ELSE IF a[1] # b[1] THEN a[1] < b[1]
    ELSE BytesLess(Tail(a), Tail(b))

\* an ordering of the paths as strings, the separators compared as bytes
PathLess_as_string(a, b) == BytesLess(JoinWith(a, <<47>>), JoinWith(b, <<47>>))

RECURSIVE PathLess(_, _)
\* Path ordering (PathBuf::cmp): component by component
PathLess(a, b) ==
    IF b = <<>> THEN FALSE
    ELSE IF a = <<>> THEN TRUE
    ELSE IF a[1] # b[1] THEN BytesLess(a[1], b[1])
    ELSE PathLess(Tail(a), Tail(b))

RECURSIVE InsertSorted(_, _)
InsertSorted(sorted, f) ==
    IF sorted = <<>> THEN <<f>>
    ELSE IF PathLess(f.rel_path.comps, sorted[1].rel_path.comps)
    THEN <<f>> \o sorted
    ELSE <<sorted[1]>> \o InsertSorted(Tail(sorted), f)

RECURSIVE sort_by_rel_path(_)
\* files.sort_by(|a, b| a.rel_path.cmp(&b.rel_path)): a stable sort
sort_by_rel_path(fs) ==
    IF fs = <<>> THEN <<>>
    ELSE InsertSorted(sort_by_rel_path(SubSeq(fs, 1, Len(fs) - 1)), fs[Len(fs)])

\* walk_dir over a root that is a file
walk_dir_file(name, ext) ==
    IF matches_ext(name, ext) THEN Ok(<<File(name)>>)
    ELSE Err(BoloError("Walk", PathDisplay(File(name).path),
                       "file does not have the extension"))

\* walk_dir over a directory whose walker yields the entries in the order
\* entries: keep the files of the extension, then sort
walk_dir(entries, ext) ==
    Ok(sort_by_rel_path(
        Flat([i \in 1..Len(entries) |->
            IF matches_ext(entries[i], ext) THEN <<File(entries[i])>> ELSE <<>>])))

----------------------------------------------------------------------------
\* Orchestration (consolidate.rs)

\* File::read of a file whose state on disk is d
file_read(file, d, l) ==
    IF d.fault = "read"
    THEN Err(BoloError("Read", PathDisplay(file.path), "os error"))
    ELSE Ok(Catalogue(l)[d.content].src)

\* parser.parse(source, None) of the grammar engine
engine_parse(d, l) ==
    IF d.fault = "parse" THEN None
    ELSE [tag |-> "Some", val |-> Catalogue(l)[d.content].tree]

\* the closure with the absolute path handed to clean
process_file_abs_path(file, d, l) ==
    LET rd == file_read(file, d, l)
    IN  IF rd.tag = "Err" THEN rd
        ELSE LET source == rd.val
                 ast    == lang_parse(l, engine_parse(d, l), source)
             IN  IF ast.tag = "Err"
                 THEN Err(BoloError("Parse", PathDisplay(file.rel_path), ast.reason))
                 ELSE Ok(clean(file.path, source, ast.val))

\* a closure that reads and parses the first source of the catalogue
\* whatever the file holds
process_file_shared_source(file, d, l) ==
    LET d1 == [d EXCEPT !.content = 1]
        rd == file_read(file, d1, l)
    IN  IF rd.tag = "Err" THEN rd
        ELSE LET source == rd.val
                 ast    == lang_parse(l, engine_parse(d1, l), source)
             IN  IF ast.tag = "Err"
                 THEN Err(BoloError("Parse", PathDisplay(file.rel_path), ast.reason))
                 ELSE Ok(clean(file.rel_path, source, ast.val))

\* the closure folder and recursive map over the files
process_file(file, d, l) ==
    LET rd == file_read(file, d, l)
    IN  IF rd.tag = "Err" THEN rd
        ELSE LET source == rd.val
                 ast    == lang_parse(l, engine_parse(d, l), source)
             IN  IF ast.tag = "Err"
                 THEN Err(BoloError("Parse", PathDisplay(file.rel_path), ast.reason))
                 ELSE Ok(clean(file.rel_path, source, ast.val))

\* a filter that also lets the files of the first directory level through
folder_filter_two_levels(fs) == SelectSeq(fs, LAMBDA f : Len(f.rel_path.comps) <= 2)

\* .filter(|f| f.rel_path.components().count() == 1) of folder
folder_filter(fs) == SelectSeq(fs, LAMBDA f : Len(f.rel_path.comps) = 1)

select_files(m, fs) == IF m = "folder" THEN folder_filter(fs) ELSE fs

\* rayon threads of the global pool built by main.rs
NumThreads(j) == IF j = 0 THEN Cores ELSE j

\* a gather that appends each item as its closure returns
collect_result_by_completion(slots, saved, order) ==
    IF saved.tag = "Some" THEN Err(saved.val)
    ELSE Ok([k \in 1..Len(order) |-> slots[order[k]].val])

\* a gather that keeps the items that succeeded when another one failed
collect_result_partial(slots, saved, order) ==
    Ok([k \in 1..Len(SelectSeq(slots, LAMBDA r : r.tag = "Ok")) |->
            SelectSeq(slots, LAMBDA r : r.tag = "Ok")[k].val])

\* .collect::<Result<Vec<_>, _>>(): the saved error if there is one, else the
\* items in the order of the input, whatever the order of completion
collect_result(slots, saved, order) ==
    IF saved.tag = "Some" THEN Err(saved.val)
    ELSE Ok([i \in 1..Len(slots) |-> slots[i].val])

----------------------------------------------------------------------------
\* SpecMeta: metadata_from_span on every buffer over a small byte alphabet
\* and every range, valid or not

\* 'a', ' ', '\n', and the bytes of U+00A0 (C2 A0, a whitespace) and
\* U+00E0 (C3 A0): alone, C2, C3 and A0 are not valid UTF-8
ByteAlphabet == {97, 32, 10, 194, 195, 160}

MetaIdle ==
    /\ ms_src = <<>> /\ ms_start = 0 /\ ms_end = 0
    /\ ms_out = None /\ ms_pc = "off"

CleanIdle ==
    /\ cl_path = <<>> /\ cl_source = <<>> /\ cl_nodes = <<>>
    /\ cl_out = <<>> /\ cl_out2 = <<>> /\ cl_pc = "off"

BatchIdle ==
    /\ root_kind = "dir" /\ disk = <<>> /\ mode = "recursive" /\ lang = "py"
    /\ jobs = 1 /\ files = <<>> /\ st = <<>> /\ slot = <<>> /\ full = FALSE
    /\ saved_error = None /\ done_order = <<>> /\ outcome = None /\ phase = "off"

ResolveIdle ==
    /\ rv_lang = "py" /\ rv_name = <<>> /\ rv_imports = <<>>
    /\ rv_out = <<>> /\ rv_pc = "off"

ReduceIdle ==
    /\ rd_lang = "py" /\ rd_src = <<>> /\ rd_tree = None
    /\ rd_out = None /\ rd_pc = "off"

QualifyIdle ==
    /\ qf_lang = "py" /\ qf_prefix = <<>> /\ qf_name = <<>>
    /\ qf_out = <<>> /\ qf_pc = "off"

CliIdle ==
    /\ args_output = FALSE /\ args_force = FALSE /\ args_dry_run = FALSE
    /\ run_pc = "off" /\ run_result = None
    /\ dest = "absent" /\ dest0 = "absent" /\ tmp = "none" /\ writes = 0

InitMeta ==
    /\ ms_src \in SeqsUpTo(ByteAlphabet, MaxSrcLen)
    /\ ms_start \in 0..(MaxSrcLen + 1)
    /\ ms_end \in 0..(MaxSrcLen + 1)
    /\ ms_out = None
    /\ ms_pc = "ready"
    /\ CleanIdle /\ BatchIdle /\ ResolveIdle /\ ReduceIdle /\ CliIdle /\ QualifyIdle

MetaCall ==
    /\ ms_pc = "ready"
    /\ ms_out' = metadata_from_span(ms_src, ms_start, ms_end)
    /\ ms_pc' = "done"
    /\ UNCHANGED <<ms_src, ms_start, ms_end, clVars, coVars, rvVars, rdVars, cliVars, qfVars>>

NextMeta == MetaCall

SpecMeta == InitMeta /\ [][NextMeta]_vars

----------------------------------------------------------------------------
\* SpecClean: clean on every tree of at most MaxNodes nodes that a reducer
\* can build (Call and Comment nodes are leaves, there is no File node), and
\* once more on its own output

NameH == <<104>>  \* "h"
NameS == <<83>>   \* "S"
NameG == <<103>>  \* "g"

\* "a.py" and "s/c.py"
CleanPaths ==
    {Path(FALSE, << <<97, 46, 112, 121>> >>),
     Path(FALSE, << <<115>>, <<99, 46, 112, 121>> >>)}

\* "" and "#\u00E0\n b" (the second character takes two bytes)
CleanSources == {<<>>, <<35, 195, 160, 10, 32, 98>>}

\* the nodes that have children (a Function or a Type), and the nodes that
\* have none (a Function, a Call or a Comment of one of three spans)
FunctionLabel(src) ==
    [node |-> ASTNode("Function", NameH), metadata |-> metadata_from_span(src, 0, Len(src))]

InnerLabels(src) ==
    {FunctionLabel(src),
     [node |-> ASTNode("Type", NameS), metadata |-> metadata_from_span(src, 0, Len(src))]}

LeafLabels(src) ==
    {FunctionLabel(src),
     [node |-> ASTNode("Call", NameG), metadata |-> metadata_from_span(src, 0, 1)]}
    \cup {[node |-> CommentNode, metadata |-> metadata_from_span(src, r[1], r[2])] :
            r \in {<<0, 0>>, <<0, 3>>, <<0, Len(src)>>}}

RECURSIVE ForestsOf(_, _)
\* the lists of trees with n nodes in all
ForestsOf(n, src) ==
    IF n = 0 THEN {<<>>}
    ELSE UNION {
            {<<Syntax(lab.node, lab.metadata, kids)>> \o rest :
                lab \in (IF k = 0 THEN LeafLabels(src) ELSE InnerLabels(src)),
                kids \in ForestsOf(k, src),
                rest \in ForestsOf(n - 1 - k, src)} : k \in 0..(n - 1)}

InitClean ==
    /\ cl_path \in CleanPaths
    /\ cl_source \in CleanSources
    /\ cl_nodes \in UNION {ForestsOf(n, cl_source) : n \in 0..MaxNodes}
    /\ cl_out = <<>> /\ cl_out2 = <<>>
    /\ cl_pc = "ready"
    /\ MetaIdle /\ BatchIdle /\ ResolveIdle /\ ReduceIdle /\ CliIdle /\ QualifyIdle

CleanRun ==
    /\ cl_pc = "ready"
    /\ cl_out' = clean(cl_path, cl_source, cl_nodes)
    /\ cl_pc' = "once"
    /\ UNCHANGED <<cl_path, cl_source, cl_nodes, cl_out2, msVars, coVars, rvVars, rdVars, cliVars, qfVars>>

CleanAgain ==
    /\ cl_pc = "once"
    /\ cl_out2' = clean(cl_path, cl_source, cl_out)
    /\ cl_pc' = "twice"
    /\ UNCHANGED <<cl_path, cl_source, cl_nodes, cl_out, msVars, coVars, rvVars, rdVars, cliVars, qfVars>>

NextClean == CleanRun \/ CleanAgain

SpecClean == InitClean /\ [][NextClean]_vars

----------------------------------------------------------------------------
\* Spec: one call of consolidate::folder or consolidate::recursive

\* "a.EXT", "s/c.EXT", "s.t/a.EXT", "b.EXT", "t/a.EXT" and the file "n.md"
\* (the directory name "s.t" sorts after "s" as a path component and
\* before "s/" as a string)
Candidates(l) ==
    << << <<97, 46>> \o ExtOf(l) >>,
       << <<115>>, <<99, 46>> \o ExtOf(l) >>,
       << <<115, 46, 116>>, <<97, 46>> \o ExtOf(l) >>,
       << <<98, 46>> \o ExtOf(l) >>,
       << <<116>>, <<97, 46>> \o ExtOf(l) >> >>

OtherFile == << <<110, 46, 109, 100>> >>

Min(a, b) == IF a < b THEN a ELSE b

\* a file on disk: which source it holds, and whether reading it fails
\* ("read") or the grammar engine returns no tree for it ("parse")
FileStates ==
    {[content |-> c, fault |-> "none"] : c \in 1..Min(MaxContents, Len(Catalogue("py")))}
    \cup {[content |-> 1, fault |-> "read"], [content |-> 1, fault |-> "parse"]}

CandidateSet(l) == {Candidates(l)[i] : i \in 1..Min(MaxFiles, Len(Candidates(l)))}

\* the first candidate can also hold the second source of the catalogue,
\* the one with the imports
FileStatesOf(l, k) ==
    FileStates \cup (IF k = Candidates(l)[1] THEN {[content |-> 2, fault |-> "none"]} ELSE {})

\* the directory trees: some of the candidates, and always n.md
DirDisks(l) ==
    UNION {{d \in [S \cup {OtherFile} -> FileStates \cup FileStatesOf(l, Candidates(l)[1])] :
                /\ d[OtherFile] = [content |-> 1, fault |-> "none"]
                /\ \A k \in S : d[k] \in FileStatesOf(l, k)} :
           S \in SUBSET CandidateSet(l)}

\* the root is one file
FileDisks(l) ==
    UNION {[{k} -> FileStates] : k \in {Candidates(l)[1], OtherFile}}

RECURSIVE Orders(_)
\* the orders in which the walker can yield the entries of the directory
Orders(S) ==
    IF S = {} THEN {<<>>}
    ELSE UNION {{<<x>> \o o : o \in Orders(S \ {x})} : x \in S}

Init ==
    /\ lang \in {"py", "rs"}
    /\ mode \in {"folder", "recursive"}
    /\ jobs \in 0..MaxJobs
    /\ root_kind \in {"dir", "file"}
    /\ disk \in (IF root_kind = "dir" THEN DirDisks(lang) ELSE FileDisks(lang))
    /\ files = <<>> /\ st = <<>> /\ slot = <<>>
    /\ full = FALSE /\ saved_error = None /\ done_order = <<>>
    /\ outcome = None
    /\ phase = "start"
    /\ MetaIdle /\ CleanIdle /\ ResolveIdle /\ ReduceIdle /\ CliIdle /\ QualifyIdle

Static == <<root_kind, disk, mode, lang, jobs, msVars, clVars, rvVars, rdVars, cliVars, qfVars>>

\* the par_iter over the selected files begins
BeginMap(fs) ==
    /\ files' = fs
    /\ st' = [i \in 1..Len(fs) |-> "todo"]
    /\ slot' = [i \in 1..Len(fs) |-> None]
    /\ phase' = "map"
    /\ UNCHANGED <<full, saved_error, done_order, outcome, Static>>

\* folder/recursive return r
Return(r) ==
    /\ outcome' = r
    /\ phase' = "returned"
    /\ UNCHANGED <<files, st, slot, full, saved_error, done_order, Static>>

\* fs::walk_dir(root, ext, no_ignore)? over a directory
WalkDir ==
    /\ phase = "start" /\ root_kind = "dir"
    /\ \E entries \in Orders(DOMAIN disk) :
          BeginMap(select_files(mode, walk_dir(entries, ExtOf(lang)).val))

\* fs::walk_dir(root, ext, no_ignore)? over a single file
WalkFile ==
    /\ phase = "start" /\ root_kind = "file"
    /\ LET r == walk_dir_file(CHOOSE k \in DOMAIN disk : TRUE, ExtOf(lang))
       IN  IF r.tag = "Err" THEN Return(r)
           ELSE BeginMap(select_files(mode, r.val))

\* canonicalize or the walker reports an I/O error
WalkFails ==
    /\ phase = "start"
    /\ Return(Err(BoloError("Walk", PathDisplay(Path(TRUE, RootComps)), "os error")))

Running == {i \in 1..Len(files) : st[i] = "running"}

\* a rayon thread takes item i; while_some hands out no item once it is
\* full, and a pool of one thread takes the items in input order
Start(i) ==
    /\ phase = "map" /\ st[i] = "todo" /\ ~full
    /\ Cardinality(Running) < NumThreads(jobs)
    /\ NumThreads(jobs) = 1 => \A j \in 1..(i - 1) : st[j] # "todo"
    /\ st' = [st EXCEPT ![i] = "running"]
    /\ UNCHANGED <<files, slot, full, saved_error, done_order, outcome, phase, Static>>

\* a closure whose Err replaces the one already saved
Finish_last_error(i) ==
    /\ phase = "map" /\ st[i] = "running"
    /\ LET r == process_file(files[i], disk[files[i].rel_path.comps], lang)
       IN  /\ slot' = [slot EXCEPT ![i] = r]
           /\ st' = [st EXCEPT ![i] = IF r.tag = "Ok" THEN "ok" ELSE "err"]
           /\ full' = (full \/ r.tag = "Err")
           /\ saved_error' = IF r.tag = "Err"
                             THEN [tag |-> "Some", val |-> r.err]
                             ELSE saved_error
    /\ done_order' = Append(done_order, i)
    /\ UNCHANGED <<files, outcome, phase, Static>>

\* the closure returns for item i; an Err is saved if it is the first one
\* and makes while_some full
Finish(i) ==
    /\ phase = "map" /\ st[i] = "running"
    /\ LET r == process_file(files[i], disk[files[i].rel_path.comps], lang)
       IN  /\ slot' = [slot EXCEPT ![i] = r]
           /\ st' = [st EXCEPT ![i] = IF r.tag = "Ok" THEN "ok" ELSE "err"]
           /\ full' = (full \/ r.tag = "Err")
           /\ saved_error' = IF r.tag = "Err" /\ saved_error = None
                             THEN [tag |-> "Some", val |-> r.err]
                             ELSE saved_error
    /\ done_order' = Append(done_order, i)
    /\ UNCHANGED <<files, outcome, phase, Static>>

\* an item not yet taken when while_some became full is dropped
Skip(i) ==
    /\ phase = "map" /\ st[i] = "todo" /\ full
    /\ st' = [st EXCEPT ![i] = "skipped"]
    /\ UNCHANGED <<files, slot, full, saved_error, done_order, outcome, phase, Static>>

\* the final gather
Collect ==
    /\ phase = "map"
    /\ \A i \in 1..Len(files) : st[i] \in {"ok", "err", "skipped"}
    /\ Return(collect_result(slot, saved_error, done_order))

Next ==
    \/ WalkDir
    \/ WalkFile
    \/ WalkFails
    \/ \E i \in 1..Len(files) : Start(i)
    \/ \E i \in 1..Len(files) : Finish(i)
    \/ \E i \in 1..Len(files) : Skip(i)
    \/ Collect

Spec == Init /\ [][Next]_vars

----------------------------------------------------------------------------
\* Reference definitions used to state the properties

\* the characters of a byte range, none when the bytes are not valid UTF-8
CharsOf(bytes) == IF from_utf8(bytes).ok THEN from_utf8(bytes).chars ELSE <<>>

RefNewlines(text) == Cardinality({i \in 1..Len(text) : text[i] = 10})

RefWhitespaces(text) ==
    Cardinality({i \in 1..Len(text) : text[i] \in WhiteSpace /\ text[i] # 10})

\* a maximal run of non-whitespace starts where a non-whitespace character
\* is first or follows a whitespace character
RefWords(text) ==
    Cardinality({i \in 1..Len(text) :
        /\ text[i] \notin WhiteSpace
        /\ (i = 1 \/ text[i - 1] \in WhiteSpace)})

RefMetrics(text) ==
    Metadata(Len(text), RefNewlines(text) + 1, RefWords(text),
             RefWhitespaces(text), RefNewlines(text))

MetricsSound(m) == m.lines = m.newlines + 1 /\ m.chars >= m.whitespaces

RECURSIVE Preorder(_, _)
\* the nodes of a list of trees in document order, each with its depth
Preorder(nodes, depth) ==
    IF nodes = <<>> THEN <<>>
    ELSE <<[depth |-> depth, node |-> nodes[1].node, metadata |-> nodes[1].metadata]>>
         \o Preorder(nodes[1].contains, depth + 1)
         \o Preorder(Tail(nodes), depth)

IsCommentEntry(e) == e.node.tag = "Comment"
IsFileEntry(e) == e.node.tag = "File"
NotCommentEntry(e) == e.node.tag # "Comment"

CommentsOf(nodes) == SelectSeq(Preorder(nodes, 1), IsCommentEntry)

SumField(entries, f) ==
    SumSeq([i \in 1..Len(entries) |-> entries[i].metadata[f]])

MetricFields == {"chars", "lines", "words", "whitespaces", "newlines"}

\* the aggregated Comment of an output of clean, if it has one
HasAggregate(out) == Len(out) >= 2 /\ out[2].node.tag = "Comment"

\* what follows the File node and the aggregated Comment
Remainder(out) == SubSeq(out, IF HasAggregate(out) THEN 3 ELSE 2, Len(out))

----------------------------------------------------------------------------
\* Properties of metadata_from_span (SpecMeta)

ValidRange == ms_start <= ms_end /\ ms_end <= Len(ms_src)

\* C10: for every buffer and every valid range, lines = newlines + 1 and
\* chars >= whitespaces, and the fields count what they are named after in
\* the characters of the range: newlines the '\n', whitespaces the other
\* whitespace characters, words the maximal runs of non-whitespace, chars
\* the characters (a range that is not valid UTF-8 has no characters).
C10_SpanMetricsSound ==
    (ms_pc = "done" /\ ValidRange) =>
        /\ MetricsSound(ms_out)
        /\ ms_out = RefMetrics(CharsOf(SubSeq(ms_src, ms_start + 1, ms_end)))

\* a proper sub-range holding a two-byte whitespace and a newline
C10_Witness ==
    /\ ms_pc = "done" /\ ValidRange
    /\ ms_start > 0
    /\ ms_end - ms_start > ms_out.chars
    /\ ms_out.newlines = 1 /\ ms_out.whitespaces = 1

----------------------------------------------------------------------------
\* Properties of clean (SpecClean)

CleanDone == cl_pc \in {"once", "twice"}

\* C4: the output of clean is never empty and starts with a File node that
\* carries the given path, has no children and has the metrics of the whole
\* source, whatever the input tree (the empty tree and an earlier output of
\* clean included).
C4_FileNodeFirst ==
    /\ CleanDone =>
        /\ Len(cl_out) >= 1
        /\ cl_out[1] = Syntax(ASTNode("File", PathDisplay(cl_path)),
                              RefMetrics(CharsOf(cl_source)), <<>>)
    /\ cl_pc = "twice" =>
        /\ Len(cl_out2) >= 1
        /\ cl_out2[1] = Syntax(ASTNode("File", PathDisplay(cl_path)),
                               RefMetrics(CharsOf(cl_source)), <<>>)

\* the empty tree over a source of several lines
C4_Witness ==
    /\ cl_pc = "once" /\ cl_nodes = <<>> /\ Len(cl_path.comps) = 2
    /\ cl_out[1].metadata.lines = 2 /\ cl_out[1].metadata.chars = 5

\* C5: each metric field of the aggregated Comment is the sum of that field
\* over all Comment nodes of the input tree, at every depth.
C5_AggregateIsSum ==
    (CleanDone /\ HasAggregate(cl_out)) =>
        \A f \in MetricFields :
            cl_out[2].metadata[f] = SumField(CommentsOf(cl_nodes), f)

\* a top-level comment and a comment two levels down, of different sizes
C5_Witness ==
    /\ cl_pc = "once" /\ HasAggregate(cl_out)
    /\ \E i, j \in 1..Len(CommentsOf(cl_nodes)) :
          /\ CommentsOf(cl_nodes)[i].depth = 1
          /\ CommentsOf(cl_nodes)[j].depth = 3
          /\ CommentsOf(cl_nodes)[i].metadata.chars = 2
          /\ CommentsOf(cl_nodes)[j].metadata.chars = 5

\* C6: the aggregated Comment is emitted exactly when the accumulated
\* comment character count is nonzero; the output then holds exactly one
\* Comment node, at index 1 after the File node, without children; with no
\* Comment in the input there is no Comment anywhere in the output.
C6_AggregateIffChars ==
    CleanDone =>
        /\ HasAggregate(cl_out) <=> SumField(CommentsOf(cl_nodes), "chars") > 0
        /\ HasAggregate(cl_out) =>
              /\ Len(CommentsOf(cl_out)) = 1
              /\ cl_out[2].contains = <<>>
        /\ ~HasAggregate(cl_out) => CommentsOf(cl_out) = <<>>
        /\ CommentsOf(cl_nodes) = <<>> => CommentsOf(cl_out) = <<>>

\* a tree whose only comment is empty: nothing is emitted
C6_Witness ==
    /\ cl_pc = "once"
    /\ Len(CommentsOf(cl_nodes)) = 1
    /\ CommentsOf(cl_nodes)[1].depth = 2
    /\ cl_source # <<>>
    /\ CommentsOf(cl_out) = <<>>

\* C7: what follows the File node and the aggregated Comment is the input
\* tree with every Comment deleted where it stood: the non-comment nodes
\* keep their kind, name, metrics, depth and order.
C7_StripKeepsShape ==
    CleanDone =>
        Preorder(Remainder(cl_out), 1) = SelectSeq(Preorder(cl_nodes, 1), NotCommentEntry)

\* a comment three levels down
C7_Witness ==
    /\ cl_pc = "once"
    /\ \E i \in 1..Len(CommentsOf(cl_nodes)) : CommentsOf(cl_nodes)[i].depth = 3
    /\ Len(Preorder(Remainder(cl_out), 1)) = 2

\* C8 as stated: clean(p, s, clean(p, s, t)) = clean(p, s, t).
C8_Original == cl_pc = "twice" => cl_out2 = cl_out

\* C8 amended: a second run strips nothing more and leaves the remainder as
\* it is, but it puts a new File node (and the aggregated Comment, if any)
\* in front of the first run's File node.
C8_SecondRunKeepsRemainder ==
    cl_pc = "twice" =>
        cl_out2 = <<cl_out[1]>>
                  \o (IF HasAggregate(cl_out) THEN <<cl_out[2]>> ELSE <<>>)
                  \o <<cl_out[1]>>
                  \o Remainder(cl_out)

\* a second run over an output that holds an aggregated Comment
C8_Witness ==
    /\ cl_pc = "twice" /\ HasAggregate(cl_out) /\ Len(Remainder(cl_out)) >= 1

----------------------------------------------------------------------------
\* Properties of folder / recursive (Spec)

Returned == phase = "returned"

\* discovery failed: nothing was selected
WalkFailed == outcome.tag = "Err" /\ outcome.err.kind = "Walk"

Items == 1..Len(files)

OnDisk(i) == disk[files[i].rel_path.comps]

\* the selected files that cannot be read or reduced
Faulty == {i \in Items : OnDisk(i).fault # "none"}

\* what the reducer returns for the i-th selected file
ReducerOutput(i) ==
    lang_parse(lang, engine_parse(OnDisk(i), lang), Catalogue(lang)[OnDisk(i).content].src).val

\* what sequential processing yields for the i-th selected file
SequentialTree(i) == process_file(files[i], OnDisk(i), lang).val

\* C1: when every selected file is read and reduced successfully, the i-th
\* entry of the returned collection is the cleaned tree of the i-th selected
\* file, for every interleaving and completion order of the workers.
C1_InputOrder ==
    (Returned /\ ~WalkFailed /\ Faulty = {}) =>
        /\ outcome.tag = "Ok"
        /\ Len(outcome.val) = Len(files)
        /\ \A i \in Items : outcome.val[i] = SequentialTree(i)

\* three files, the last one completed first
C1_Witness ==
    /\ Returned /\ outcome.tag = "Ok"
    /\ Len(files) = 3 /\ done_order = <<3, 1, 2>>

\* C2: when reading or reducing fails for a selected file, an error is
\* returned and no tree at all, wherever the failing file stands and
\* whatever completed before or after the failure.
C2_NoPartialResult ==
    (Returned /\ Faulty # {}) => (outcome.tag = "Err" /\ outcome.val = <<>>)

\* the second of three files fails; one file completed before it and one,
\* in flight at the failure, after it
C2_Witness ==
    /\ Returned /\ outcome.tag = "Err"
    /\ st = <<"ok", "err", "ok">> /\ done_order = <<1, 2, 3>>

\* C3: every returned per-file result holds exactly one File node in the
\* whole tree, at index 0, carrying the root-relative path of its file; the
\* reducer output holds none.
C3_OneFileNode ==
    (Returned /\ outcome.tag = "Ok") =>
        \A i \in 1..Len(outcome.val) :
            /\ Len(SelectSeq(Preorder(outcome.val[i], 1), IsFileEntry)) = 1
            /\ outcome.val[i][1].node.tag = "File"
            /\ outcome.val[i][1].node.val = JoinWith(files[i].rel_path.comps, <<47>>)
            /\ files[i].rel_path.comps \in DOMAIN disk
            /\ SelectSeq(Preorder(ReducerOutput(i), 1), IsFileEntry) = <<>>

\* a Rust file in a sub-directory whose tree has nested nodes
C3_Witness ==
    /\ Returned /\ outcome.tag = "Ok" /\ lang = "rs"
    /\ \E i \in 1..Len(outcome.val) :
          /\ Len(files[i].rel_path.comps) = 2
          /\ \E k \in 1..Len(Preorder(outcome.val[i], 1)) :
                Preorder(outcome.val[i], 1)[k].depth = 2

\* C9 as stated: every node of every per-file result has
\* lines = newlines + 1 and chars >= whitespaces.
C9_Original ==
    (Returned /\ outcome.tag = "Ok") =>
        \A i \in 1..Len(outcome.val) :
            \A k \in 1..Len(Preorder(outcome.val[i], 1)) :
                MetricsSound(Preorder(outcome.val[i], 1)[k].metadata)

\* C9 amended: every node has chars >= whitespaces; every node other than
\* the aggregated Comment has lines = newlines + 1; the aggregated Comment
\* of a file with k comments has lines = newlines + k.
C9_MetricsSoundButAggregate ==
    (Returned /\ outcome.tag = "Ok") =>
        \A i \in 1..Len(outcome.val) :
            \A k \in 1..Len(Preorder(outcome.val[i], 1)) :
                LET e == Preorder(outcome.val[i], 1)[k]
                IN  /\ e.metadata.chars >= e.metadata.whitespaces
                    /\ e.metadata.lines = e.metadata.newlines
                          + (IF e.node.tag = "Comment"
                             THEN Len(CommentsOf(ReducerOutput(i))) ELSE 1)

\* a file with two comments, one of them nested in a function
C9_Witness ==
    /\ Returned /\ outcome.tag = "Ok" /\ lang = "py"
    /\ \E i \in 1..Len(outcome.val) :
          /\ HasAggregate(outcome.val[i])
          /\ Len(CommentsOf(ReducerOutput(i))) = 2
          /\ \E k \in 1..Len(CommentsOf(ReducerOutput(i))) :
                CommentsOf(ReducerOutput(i))[k].depth = 2

----------------------------------------------------------------------------
\* Invalid ranges (SpecMeta)

\* C11: for every buffer and every invalid range (an end beyond the buffer,
\* hence also a start beyond it, or start > end) metadata_from_span returns
\* a value, and it is all zero with lines = 1.
C11_InvalidRangeIsEmpty ==
    (ms_pc = "done" /\ ~ValidRange) => ms_out = Metadata(0, 1, 0, 0, 0)

\* a buffer with text and a newline in it, and a range that starts inside
\* the buffer and ends beyond it
C11_Witness ==
    /\ ms_pc = "done"
    /\ Len(ms_src) >= 2 /\ 10 \in Range(ms_src)
    /\ ms_start < Len(ms_src) /\ ms_end > Len(ms_src)
    /\ ms_out.lines = 1

\* start > end inside the buffer
C11_WitnessReversed ==
    /\ ms_pc = "done"
    /\ ms_start > ms_end /\ ms_start <= Len(ms_src)

----------------------------------------------------------------------------
\* SpecResolve: resolve_call of either reducer on every short name over
\* letters and separator characters, some longer names, and every alias
\* table over a few keys (the reserved words among them)

\* longest name drawn from NameAlphabet
MaxNameLen == 3

\* 'a', 'b', '.', ':'
NameAlphabet == {97, 98, 46, 58}

\* "self.a", "self::a", "crate::a.b", "super::a", "super.a", "selfa",
\* "a.b::a", "a::b.a", "a.b.a", "a::b::a", "b.a::<a>"
SampleNames ==
    {KwSelf \o <<46, 97>>, KwSelf \o <<58, 58, 97>>,
     KwCrate \o <<58, 58, 97, 46, 98>>,
     KwSuper \o <<58, 58, 97>>, KwSuper \o <<46, 97>>,
     KwSelf \o <<97>>,
     <<97, 46, 98, 58, 58, 97>>, <<97, 58, 58, 98, 46, 97>>,
     <<97, 46, 98, 46, 97>>, <<97, 58, 58, 98, 58, 58, 97>>,
     <<98, 46, 97, 58, 58, 60, 97, 62>>}

CallNames == SeqsUpTo(NameAlphabet, MaxNameLen) \cup {KwSelf, KwSuper, KwCrate} \cup SampleNames

TableKeys == {<<97>>, <<98>>, KwSelf, KwSuper, KwCrate}

\* "q", "w.q" and "b.q" (Python) or "w::q" and "b::q" (Rust); the last
\* one begins with a name that can itself be a key
TableValues(l) ==
    {<<113>>,
     IF l = "py" THEN <<119, 46, 113>> ELSE <<119, 58, 58, 113>>,
     IF l = "py" THEN <<98, 46, 113>> ELSE <<98, 58, 58, 113>>}

Tables(l) == UNION {[K -> TableValues(l)] : K \in SUBSET TableKeys}

InitResolve ==
    /\ rv_lang \in {"py", "rs"}
    /\ rv_name \in CallNames
    /\ rv_imports \in Tables(rv_lang)
    /\ rv_out = <<>>
    /\ rv_pc = "ready"
    /\ MetaIdle /\ CleanIdle /\ BatchIdle /\ ReduceIdle /\ CliIdle /\ QualifyIdle

PyResolve ==
    /\ rv_pc = "ready" /\ rv_lang = "py"
    /\ rv_out' = py_resolve_call(rv_name, rv_imports)
    /\ rv_pc' = "done"
    /\ UNCHANGED <<rv_lang, rv_name, rv_imports, msVars, clVars, coVars, rdVars, cliVars, qfVars>>

RsResolve ==
    /\ rv_pc = "ready" /\ rv_lang = "rs"
    /\ rv_out' = rs_resolve_call(rv_name, rv_imports)
    /\ rv_pc' = "done"
    /\ UNCHANGED <<rv_lang, rv_name, rv_imports, msVars, clVars, coVars, rdVars, cliVars, qfVars>>

NextResolve == PyResolve \/ RsResolve

SpecResolve == InitResolve /\ [][NextResolve]_vars

----------------------------------------------------------------------------
\* Properties of resolve_call (SpecResolve)

\* the separators of a dialect
Separators(l) == IF l = "py" THEN {Dot} ELSE {Dot, ColonColon}

\* where the first of the separators seps starts in name, 0 when none occurs
FirstSep(name, seps) ==
    LET hits == {i \in 1..Len(name) : \E p \in seps : IsPrefixAt(name, p, i)}
    IN  IF hits = {} THEN 0 ELSE CHOOSE i \in hits : \A j \in hits : i <= j

SepAt(name, seps, i) ==
    IF i = 0 THEN <<>> ELSE CHOOSE p \in seps : IsPrefixAt(name, p, i)

SegmentBefore(name, i) == IF i = 0 THEN name ELSE SubSeq(name, 1, i - 1)

\* name with its first segment, which ends before position i, replaced by
\* the table's path when the segment is a key
Substituted(name, table, i, sep) ==
    IF SegmentBefore(name, i) \notin DOMAIN table THEN name
    ELSE IF i = 0 THEN table[name]
    ELSE table[SegmentBefore(name, i)] \o sep \o SubSeq(name, i + Len(sep), Len(name))

ReservedPrefixes == {KwSelf, KwSuper, KwCrate}

\* C12 as stated: the first segment, the text before the first separator of
\* the name, is replaced by the table's path when it is a key, the separator
\* and the remaining segments are kept, and the name is unchanged otherwise.
C12_Original ==
    rv_pc = "done" =>
        LET i == FirstSep(rv_name, Separators(rv_lang))
        IN  rv_out = Substituted(rv_name, rv_imports, i,
                                 SepAt(rv_name, Separators(rv_lang), i))

\* where the Rust reducer ends the first segment: at the first "::" if the
\* name has one, even behind a ".", else at the first "."
SplitPoint(name, l) ==
    IF l = "rs" /\ FirstSep(name, {ColonColon}) # 0
    THEN FirstSep(name, {ColonColon})
    ELSE FirstSep(name, {Dot})

\* C12 amended: as stated in the Python reducer; in the Rust reducer the
\* first segment ends at the first "::" when the name has one and at the
\* first "." otherwise, and a first segment self, super or crate is never
\* replaced, key or not.
C12_FirstSegmentReplaced ==
    rv_pc = "done" =>
        LET i   == SplitPoint(rv_name, rv_lang)
            sep == SepAt(rv_name, Separators(rv_lang), i)
        IN  IF rv_lang = "rs" /\ SegmentBefore(rv_name, i) \in ReservedPrefixes
            THEN rv_out = rv_name
            ELSE rv_out = Substituted(rv_name, rv_imports, i, sep)

\* "a.b.a" or "a::b::a" with both a and b keys of the table: only a is
\* replaced
C12_Witness ==
    /\ rv_pc = "done"
    /\ Len(rv_name) >= 5
    /\ {<<97>>, <<98>>} \subseteq DOMAIN rv_imports
    /\ rv_imports[<<97>>] # rv_imports[<<98>>]
    /\ rv_out = rv_imports[<<97>>] \o SubSeq(rv_name, 2, Len(rv_name))

\* C13: a name whose first segment is self, super or crate is returned
\* unchanged by both reducers, for every alias table, one with such a key
\* included.
C13_Original ==
    (rv_pc = "done"
        /\ SegmentBefore(rv_name, SplitPoint(rv_name, rv_lang)) \in ReservedPrefixes)
    => rv_out = rv_name

\* what holds in the code: the Rust reducer never rewrites such a name; the
\* Python reducer leaves it alone only when the prefix is not a key
C13_ReservedKeptUnlessPythonKey ==
    (rv_pc = "done"
        /\ SegmentBefore(rv_name, SplitPoint(rv_name, rv_lang)) \in ReservedPrefixes
        /\ (rv_lang = "py" =>
                SegmentBefore(rv_name, SplitPoint(rv_name, rv_lang)) \notin DOMAIN rv_imports))
    => rv_out = rv_name

\* the Rust reducer asked for "self::a" with self a key of the table
C13_RustReservedKey ==
    /\ rv_pc = "done" /\ rv_lang = "rs"
    /\ rv_name = KwSelf \o <<58, 58, 97>>
    /\ KwSelf \in DOMAIN rv_imports
    /\ rv_out = rv_name

\* the Python reducer asked for "self.a" with self a key of the table
C13_PythonRewritesSelf ==
    /\ rv_pc = "done" /\ rv_lang = "py"
    /\ rv_name = KwSelf \o <<46, 97>>
    /\ KwSelf \in DOMAIN rv_imports
    /\ rv_out = rv_imports[KwSelf] \o <<46, 97>>

----------------------------------------------------------------------------
\* Errors, modes and ordering of folder / recursive (Spec)

\* the root-relative paths of the selected files that fail, as displayed
FaultyRelPaths == {PathDisplay(files[i].rel_path) : i \in Faulty}

\* C16: when reading or reducing a selected file fails, the returned error
\* carries the root-relative path of a failing file and a reason.
C16_Original ==
    (Returned /\ Faulty # {}) =>
        /\ outcome.tag = "Err"
        /\ outcome.err.where \in FaultyRelPaths
        /\ outcome.err.reason # ""

\* what holds in the code: a reduce failure carries the root-relative path,
\* a read failure the absolute path of the file
C16_ReadErrorCarriesAbsolutePath ==
    (Returned /\ Faulty # {}) =>
        /\ outcome.tag = "Err"
        /\ outcome.err.reason # ""
        /\ \E i \in Faulty :
              \/ /\ OnDisk(i).fault = "parse" /\ outcome.err.kind = "Parse"
                 /\ outcome.err.where = PathDisplay(files[i].rel_path)
              \/ /\ OnDisk(i).fault = "read" /\ outcome.err.kind = "Read"
                 /\ outcome.err.where = <<47>> \o JoinWith(RootComps, <<47>>) \o <<47>>
                                        \o PathDisplay(files[i].rel_path)

\* a batch whose only failure is a file in a sub-directory that cannot be read
C16_ReadFailureReached ==
    /\ Returned /\ outcome.tag = "Err" /\ outcome.err.kind = "Read"
    /\ \E i \in Faulty : Len(files[i].rel_path.comps) = 2

\* the files recursive discovery finds under the root, in its order
Discovered ==
    IF root_kind = "dir"
    THEN walk_dir(CHOOSE o \in Orders(DOMAIN disk) : TRUE, ExtOf(lang)).val
    ELSE walk_dir_file(CHOOSE k \in DOMAIN disk : TRUE, ExtOf(lang)).val

\* what recursive returns for the root when it succeeds: file by file
RecursiveRun ==
    [i \in 1..Len(Discovered) |->
        [file |-> Discovered[i],
         res  |-> process_file(Discovered[i], disk[Discovered[i].rel_path.comps], lang)]]

RecursiveSucceeds == \A i \in 1..Len(RecursiveRun) : RecursiveRun[i].res.tag = "Ok"

TopLevelRuns == SelectSeq(RecursiveRun, LAMBDA r : Len(r.file.rel_path.comps) = 1)

\* C17: when folder and recursive both succeed on a root, the result of
\* folder is the sub-sequence of the result of recursive made of the trees
\* of the files whose relative path has one component, in the same order.
C17_FolderIsTopLevelOfRecursive ==
    (Returned /\ mode = "folder" /\ outcome.tag = "Ok" /\ RecursiveSucceeds) =>
        outcome.val = [k \in 1..Len(TopLevelRuns) |-> TopLevelRuns[k].res.val]

\* a root with a file at top level and files in sub-directories
C17_Witness ==
    /\ Returned /\ mode = "folder" /\ outcome.tag = "Ok" /\ RecursiveSucceeds
    /\ Len(outcome.val) = 1 /\ Len(Discovered) = 3

\* the path a per-file result carries in its File node
ResultPath(i) == outcome.val[i][1].node.val

\* C18 as stated: the results of recursive are in increasing order of the
\* relative path compared as a string, separators included.
C18_Original ==
    (Returned /\ mode = "recursive" /\ outcome.tag = "Ok") =>
        \A i, j \in 1..Len(outcome.val) :
            i < j => BytesLess(ResultPath(i), ResultPath(j))

\* the files of the language's extension on disk
Matching == {k \in DOMAIN disk : matches_ext(k, ExtOf(lang))}

\* C18 amended: the results of recursive are the results for exactly the
\* matching files, in increasing order of the relative path compared
\* component by component (each component as a byte string), whatever the
\* order of enumeration and of completion.
C18_ComponentwiseOrder ==
    (Returned /\ mode = "recursive" /\ outcome.tag = "Ok") =>
        /\ Len(outcome.val) = Cardinality(Matching)
        /\ \A i \in 1..Len(outcome.val) :
              /\ files[i].rel_path.comps \in Matching
              /\ ResultPath(i) = JoinWith(files[i].rel_path.comps, <<47>>)
        /\ \A i, j \in 1..Len(outcome.val) :
              i < j => LET a == files[i].rel_path.comps
                           b == files[j].rel_path.comps
                           d == CHOOSE n \in 1..(Len(a) + 1) :
                                   /\ n > Len(a) \/ n > Len(b) \/ a[n] # b[n]
                                   /\ \A m \in 1..(n - 1) :
                                         m <= Len(a) /\ m <= Len(b) /\ a[m] = b[m]
                       IN  IF d > Len(a) \/ d > Len(b)
                           THEN Len(a) < Len(b)
                           ELSE BytesLess(a[d], b[d])

\* "s/c.EXT" before "s.t/a.EXT", the second one completed first
C18_Witness ==
    /\ Returned /\ mode = "recursive" /\ outcome.tag = "Ok"
    /\ \E i \in 1..Len(outcome.val) :
          /\ i < Len(outcome.val)
          /\ files[i].rel_path.comps[1] = <<115>>
          /\ files[i + 1].rel_path.comps[1] = <<115, 46, 116>>
          /\ done_order[1] = i + 1

----------------------------------------------------------------------------
\* SpecReduce: Lang::parse on every file made of up to MaxStmts top-level
\* statements, each drawn from a few statements per language.  A statement
\* is its source text and the nodes the grammar engine builds for it (an
\* external input; the byte spans are relative to the statement's start).

\* statements of a file in SpecReduce
MaxStmts == 3

\* "w()\n"
PyStmtCall ==
    [src |-> <<119, 40, 41, 10>>,
     kids |-> <<
        Node("expression_statement", 0, 3, <<"">>,
          <<
            Node("call", 0, 3, <<"function", "arguments">>,
              <<
                Node("identifier", 0, 1, <<>>, <<>>),
                Node("argument_list", 1, 3, <<>>, <<>>)>>)>>)>>]

\* "import q as w\n"
PyStmtImportAs ==
    [src |-> <<105, 109, 112, 111, 114, 116, 32, 113, 32, 97, 115, 32, 119, 10>>,
     kids |-> <<
        Node("import_statement", 0, 13, <<"name">>,
          <<
            Node("aliased_import", 7, 13, <<"name", "alias">>,
              <<
                Node("dotted_name", 7, 8, <<"">>,
                  <<
                    Node("identifier", 7, 8, <<>>, <<>>)>>),
                Node("identifier", 12, 13, <<>>, <<>>)>>)>>)>>]

\* "from k import w\n"
PyStmtFromImport ==
    [src |-> <<102, 114, 111, 109, 32, 107, 32, 105, 109, 112, 111, 114, 116, 32, 119, 10>>,
     kids |-> <<
        Node("import_from_statement", 0, 15, <<"module_name", "name">>,
          <<
            Node("dotted_name", 5, 6, <<"">>,
              <<
                Node("identifier", 5, 6, <<>>, <<>>)>>),
            Node("dotted_name", 14, 15, <<"">>,
              <<
                Node("identifier", 14, 15, <<>>, <<>>)>>)>>)>>]

\* "import w\n"
PyStmtImport ==
    [src |-> <<105, 109, 112, 111, 114, 116, 32, 119, 10>>,
     kids |-> <<
        Node("import_statement", 0, 8, <<"name">>,
          <<
            Node("dotted_name", 7, 8, <<"">>,
              <<
                Node("identifier", 7, 8, <<>>, <<>>)>>)>>)>>]

\* "def h():\n import g as w\n w()\n"
PyStmtDefImport ==
    [src |-> <<100, 101, 102, 32, 104, 40, 41, 58, 10, 32, 105, 109, 112, 111, 114, 116, 32, 103, 32, 97, 115, 32, 119, 10, 32, 119, 40, 41, 10>>,
     kids |-> <<
        Node("function_definition", 0, 28, <<"name", "parameters", "body">>,
          <<
            Node("identifier", 4, 5, <<>>, <<>>),
            Node("parameters", 5, 7, <<>>, <<>>),
            Node("block", 10, 28, <<"", "">>,
              <<
                Node("import_statement", 10, 23, <<"name">>,
                  <<
                    Node("aliased_import", 17, 23, <<"name", "alias">>,
                      <<
                        Node("dotted_name", 17, 18, <<"">>,
                          <<
                            Node("identifier", 17, 18, <<>>, <<>>)>>),
                        Node("identifier", 22, 23, <<>>, <<>>)>>)>>),
                Node("expression_statement", 25, 28, <<"">>,
                  <<
                    Node("call", 25, 28, <<"function", "arguments">>,
                      <<
                        Node("identifier", 25, 26, <<>>, <<>>),
                        Node("argument_list", 26, 28, <<>>, <<>>)>>)>>)>>)>>)>>]

\* "@w()\ndef h():\n pass\n"
PyStmtDecorated ==
    [src |-> <<64, 119, 40, 41, 10, 100, 101, 102, 32, 104, 40, 41, 58, 10, 32, 112, 97, 115, 115, 10>>,
     kids |-> <<
        Node("decorated_definition", 0, 19, <<"", "definition">>,
          <<
            Node("decorator", 0, 4, <<"">>,
              <<
                Node("call", 1, 4, <<"function", "arguments">>,
                  <<
                    Node("identifier", 1, 2, <<>>, <<>>),
                    Node("argument_list", 2, 4, <<>>, <<>>)>>)>>),
            Node("function_definition", 5, 19, <<"name", "parameters", "body">>,
              <<
                Node("identifier", 9, 10, <<>>, <<>>),
                Node("parameters", 10, 12, <<>>, <<>>),
                Node("block", 15, 19, <<"">>,
                  <<
                    Node("pass_statement", 15, 19, <<>>, <<>>)>>)>>)>>)>>]

\* "if w(w.g()):\n w()\n"
PyStmtIfNested ==
    [src |-> <<105, 102, 32, 119, 40, 119, 46, 103, 40, 41, 41, 58, 10, 32, 119, 40, 41, 10>>,
     kids |-> <<
        Node("if_statement", 0, 17, <<"condition", "consequence">>,
          <<
            Node("call", 3, 11, <<"function", "arguments">>,
              <<
                Node("identifier", 3, 4, <<>>, <<>>),
                Node("argument_list", 4, 11, <<"">>,
                  <<
                    Node("call", 5, 10, <<"function", "arguments">>,
                      <<
                        Node("attribute", 5, 8, <<"object", "attribute">>,
                          <<
                            Node("identifier", 5, 6, <<>>, <<>>),
                            Node("identifier", 7, 8, <<>>, <<>>)>>),
                        Node("argument_list", 8, 10, <<>>, <<>>)>>)>>)>>),
            Node("block", 14, 17, <<"">>,
              <<
                Node("expression_statement", 14, 17, <<"">>,
                  <<
                    Node("call", 14, 17, <<"function", "arguments">>,
                      <<
                        Node("identifier", 14, 15, <<>>, <<>>),
                        Node("argument_list", 15, 17, <<>>, <<>>)>>)>>)>>)>>)>>]

\* "class S:\n def g(self):\n  self.w()\n"
PyStmtClass ==
    [src |-> <<99, 108, 97, 115, 115, 32, 83, 58, 10, 32, 100, 101, 102, 32, 103, 40, 115, 101, 108, 102, 41, 58, 10, 32, 32, 115, 101, 108, 102, 46, 119, 40, 41, 10>>,
     kids |-> <<
        Node("class_definition", 0, 33, <<"name", "body">>,
          <<
            Node("identifier", 6, 7, <<>>, <<>>),
            Node("block", 10, 33, <<"">>,
              <<
                Node("function_definition", 10, 33, <<"name", "parameters", "body">>,
                  <<
                    Node("identifier", 14, 15, <<>>, <<>>),
                    Node("parameters", 15, 21, <<"">>,
                      <<
                        Node("identifier", 16, 20, <<>>, <<>>)>>),
                    Node("block", 25, 33, <<"">>,
                      <<
                        Node("expression_statement", 25, 33, <<"">>,
                          <<
                            Node("call", 25, 33, <<"function", "arguments">>,
                              <<
                                Node("attribute", 25, 31, <<"object", "attribute">>,
                                  <<
                                    Node("identifier", 25, 29, <<>>, <<>>),
                                    Node("identifier", 30, 31, <<>>, <<>>)>>),
                                Node("argument_list", 31, 33, <<>>, <<>>)>>)>>)>>)>>)>>)>>)>>]

\* "fn h(){w();}\n"
RsItemFnCall ==
    [src |-> <<102, 110, 32, 104, 40, 41, 123, 119, 40, 41, 59, 125, 10>>,
     kids |-> <<
        Node("function_item", 0, 12, <<"name", "parameters", "body">>,
          <<
            Node("identifier", 3, 4, <<>>, <<>>),
            Node("parameters", 4, 6, <<>>, <<>>),
            Node("block", 6, 12, <<"">>,
              <<
                Node("expression_statement", 7, 11, <<"">>,
                  <<
                    Node("call_expression", 7, 10, <<"function", "arguments">>,
                      <<
                        Node("identifier", 7, 8, <<>>, <<>>),
                        Node("arguments", 8, 10, <<>>, <<>>)>>)>>)>>)>>)>>]

\* "use q::w;\n"
RsItemUse ==
    [src |-> <<117, 115, 101, 32, 113, 58, 58, 119, 59, 10>>,
     kids |-> <<
        Node("use_declaration", 0, 9, <<"argument">>,
          <<
            Node("scoped_identifier", 4, 8, <<"path", "name">>,
              <<
                Node("identifier", 4, 5, <<>>, <<>>),
                Node("identifier", 7, 8, <<>>, <<>>)>>)>>)>>]

\* "use k::{w};\n"
RsItemUseList ==
    [src |-> <<117, 115, 101, 32, 107, 58, 58, 123, 119, 125, 59, 10>>,
     kids |-> <<
        Node("use_declaration", 0, 11, <<"argument">>,
          <<
            Node("scoped_use_list", 4, 10, <<"path", "list">>,
              <<
                Node("identifier", 4, 5, <<>>, <<>>),
                Node("use_list", 7, 10, <<"">>,
                  <<
                    Node("identifier", 8, 9, <<>>, <<>>)>>)>>)>>)>>]

\* "use g as w;\n"
RsItemUseAs ==
    [src |-> <<117, 115, 101, 32, 103, 32, 97, 115, 32, 119, 59, 10>>,
     kids |-> <<
        Node("use_declaration", 0, 11, <<"argument">>,
          <<
            Node("use_as_clause", 4, 10, <<"path", "alias">>,
              <<
                Node("identifier", 4, 5, <<>>, <<>>),
                Node("identifier", 9, 10, <<>>, <<>>)>>)>>)>>]

\* "fn h(){use g::w;w();}\n"
RsItemFnUse ==
    [src |-> <<102, 110, 32, 104, 40, 41, 123, 117, 115, 101, 32, 103, 58, 58, 119, 59, 119, 40, 41, 59, 125, 10>>,
     kids |-> <<
        Node("function_item", 0, 21, <<"name", "parameters", "body">>,
          <<
            Node("identifier", 3, 4, <<>>, <<>>),
            Node("parameters", 4, 6, <<>>, <<>>),
            Node("block", 6, 21, <<"", "">>,
              <<
                Node("use_declaration", 7, 16, <<"argument">>,
                  <<
                    Node("scoped_identifier", 11, 15, <<"path", "name">>,
                      <<
                        Node("identifier", 11, 12, <<>>, <<>>),
                        Node("identifier", 14, 15, <<>>, <<>>)>>)>>),
                Node("expression_statement", 16, 20, <<"">>,
                  <<
                    Node("call_expression", 16, 19, <<"function", "arguments">>,
                      <<
                        Node("identifier", 16, 17, <<>>, <<>>),
                        Node("arguments", 17, 19, <<>>, <<>>)>>)>>)>>)>>)>>]

\* "#[w]\nmod m{fn g(){w();}}\n"
RsItemAttrMod ==
    [src |-> <<35, 91, 119, 93, 10, 109, 111, 100, 32, 109, 123, 102, 110, 32, 103, 40, 41, 123, 119, 40, 41, 59, 125, 125, 10>>,
     kids |-> <<
        Node("attribute_item", 0, 4, <<"">>,
          <<
            Node("attribute", 2, 3, <<"">>,
              <<
                Node("identifier", 2, 3, <<>>, <<>>)>>)>>),
        Node("mod_item", 5, 24, <<"name", "body">>,
          <<
            Node("identifier", 9, 10, <<>>, <<>>),
            Node("declaration_list", 10, 24, <<"">>,
              <<
                Node("function_item", 11, 23, <<"name", "parameters", "body">>,
                  <<
                    Node("identifier", 14, 15, <<>>, <<>>),
                    Node("parameters", 15, 17, <<>>, <<>>),
                    Node("block", 17, 23, <<"">>,
                      <<
                        Node("expression_statement", 18, 22, <<"">>,
                          <<
                            Node("call_expression", 18, 21, <<"function", "arguments">>,
                              <<
                                Node("identifier", 18, 19, <<>>, <<>>),
                                Node("arguments", 19, 21, <<>>, <<>>)>>)>>)>>)>>)>>)>>)>>]

\* "fn h(){if w(w::g()){w!();}}\n"
RsItemIfNested ==
    [src |-> <<102, 110, 32, 104, 40, 41, 123, 105, 102, 32, 119, 40, 119, 58, 58, 103, 40, 41, 41, 123, 119, 33, 40, 41, 59, 125, 125, 10>>,
     kids |-> <<
        Node("function_item", 0, 27, <<"name", "parameters", "body">>,
          <<
            Node("identifier", 3, 4, <<>>, <<>>),
            Node("parameters", 4, 6, <<>>, <<>>),
            Node("block", 6, 27, <<"">>,
              <<
                Node("expression_statement", 7, 26, <<"">>,
                  <<
                    Node("if_expression", 7, 26, <<"condition", "consequence">>,
                      <<
                        Node("call_expression", 10, 19, <<"function", "arguments">>,
                          <<
                            Node("identifier", 10, 11, <<>>, <<>>),
                            Node("arguments", 11, 19, <<"">>,
                              <<
                                Node("call_expression", 12, 18, <<"function", "arguments">>,
                                  <<
                                    Node("scoped_identifier", 12, 16, <<"path", "name">>,
                                      <<
                                        Node("identifier", 12, 13, <<>>, <<>>),
                                        Node("identifier", 15, 16, <<>>, <<>>)>>),
                                    Node("arguments", 16, 18, <<>>, <<>>)>>)>>)>>),
                        Node("block", 19, 26, <<"">>,
                          <<
                            Node("expression_statement", 20, 25, <<"">>,
                              <<
                                Node("macro_invocation", 20, 24, <<"macro", "">>,
                                  <<
                                    Node("identifier", 20, 21, <<>>, <<>>),
                                    Node("token_tree", 22, 24, <<>>, <<>>)>>)>>)>>)>>)>>)>>)>>)>>]

\* "impl S{fn g(){self.w();}}\n"
RsItemImpl ==
    [src |-> <<105, 109, 112, 108, 32, 83, 123, 102, 110, 32, 103, 40, 41, 123, 115, 101, 108, 102, 46, 119, 40, 41, 59, 125, 125, 10>>,
     kids |-> <<
        Node("impl_item", 0, 25, <<"type", "body">>,
          <<
            Node("type_identifier", 5, 6, <<>>, <<>>),
            Node("declaration_list", 6, 25, <<"">>,
              <<
                Node("function_item", 7, 24, <<"name", "parameters", "body">>,
                  <<
                    Node("identifier", 10, 11, <<>>, <<>>),
                    Node("parameters", 11, 13, <<>>, <<>>),
                    Node("block", 13, 24, <<"">>,
                      <<
                        Node("expression_statement", 14, 23, <<"">>,
                          <<
                            Node("call_expression", 14, 22, <<"function", "arguments">>,
                              <<
                                Node("field_expression", 14, 20, <<"value", "field">>,
                                  <<
                                    Node("self", 14, 18, <<>>, <<>>),
                                    Node("field_identifier", 19, 20, <<>>, <<>>)>>),
                                Node("arguments", 20, 22, <<>>, <<>>)>>)>>)>>)>>)>>)>>)>>]

\* "trait T{fn g();}\n"
RsItemTraitSig ==
    [src |-> <<116, 114, 97, 105, 116, 32, 84, 123, 102, 110, 32, 103, 40, 41, 59, 125, 10>>,
     kids |-> <<
        Node("trait_item", 0, 16, <<"name", "body">>,
          <<
            Node("type_identifier", 6, 7, <<>>, <<>>),
            Node("declaration_list", 7, 16, <<"">>,
              <<
                Node("function_signature_item", 8, 15, <<"name", "parameters">>,
                  <<
                    Node("identifier", 11, 12, <<>>, <<>>),
                    Node("parameters", 12, 14, <<>>, <<>>)>>)>>)>>)>>]

\* "struct S;\n"
RsItemStruct ==
    [src |-> <<115, 116, 114, 117, 99, 116, 32, 83, 59, 10>>,
     kids |-> <<
        Node("struct_item", 0, 9, <<"name">>,
          <<
            Node("type_identifier", 7, 8, <<>>, <<>>)>>)>>]

\* "fn h(){w::g!();w(w!());}\n"
RsItemFnMacro ==
    [src |-> <<102, 110, 32, 104, 40, 41, 123, 119, 58, 58, 103, 33, 40, 41, 59, 119, 40, 119, 33, 40, 41, 41, 59, 125, 10>>,
     kids |-> <<
        Node("function_item", 0, 24, <<"name", "parameters", "body">>,
          <<
            Node("identifier", 3, 4, <<>>, <<>>),
            Node("parameters", 4, 6, <<>>, <<>>),
            Node("block", 6, 24, <<"", "">>,
              <<
                Node("expression_statement", 7, 15, <<"">>,
                  <<
                    Node("macro_invocation", 7, 14, <<"macro", "">>,
                      <<
                        Node("scoped_identifier", 7, 11, <<"path", "name">>,
                          <<
                            Node("identifier", 7, 8, <<>>, <<>>),
                            Node("identifier", 10, 11, <<>>, <<>>)>>),
                        Node("token_tree", 12, 14, <<>>, <<>>)>>)>>),
                Node("expression_statement", 15, 23, <<"">>,
                  <<
                    Node("call_expression", 15, 22, <<"function", "arguments">>,
                      <<
                        Node("identifier", 15, 16, <<>>, <<>>),
                        Node("arguments", 16, 22, <<"">>,
                          <<
                            Node("macro_invocation", 17, 21, <<"macro", "">>,
                              <<
                                Node("identifier", 17, 18, <<>>, <<>>),
                                Node("token_tree", 19, 21, <<>>, <<>>)>>)>>)>>)>>)>>)>>)>>]

\* "# c\ndef h():\n w()\n # d\n w()\n"
PyStmtCommented ==
    [src |-> <<35, 32, 99, 10, 100, 101, 102, 32, 104, 40, 41, 58, 10, 32, 119, 40, 41, 10, 32, 35, 32, 100, 10, 32, 119, 40, 41, 10>>,
     kids |-> <<
        Node("comment", 0, 3, <<>>, <<>>),
        Node("function_definition", 4, 27, <<"name", "parameters", "body">>,
          <<
            Node("identifier", 8, 9, <<>>, <<>>),
            Node("parameters", 9, 11, <<>>, <<>>),
            Node("block", 14, 27, <<"", "", "">>,
              <<
                Node("expression_statement", 14, 17, <<"">>,
                  <<
                    Node("call", 14, 17, <<"function", "arguments">>,
                      <<
                        Node("identifier", 14, 15, <<>>, <<>>),
                        Node("argument_list", 15, 17, <<>>, <<>>)>>)>>),
                Node("comment", 19, 22, <<>>, <<>>),
                Node("expression_statement", 24, 27, <<"">>,
                  <<
                    Node("call", 24, 27, <<"function", "arguments">>,
                      <<
                        Node("identifier", 24, 25, <<>>, <<>>),
                        Node("argument_list", 25, 27, <<>>, <<>>)>>)>>)>>)>>)>>]

\* "// c\nfn h(){w();/*d*/w();}\n"
RsItemCommented ==
    [src |-> <<47, 47, 32, 99, 10, 102, 110, 32, 104, 40, 41, 123, 119, 40, 41, 59, 47, 42, 100, 42, 47, 119, 40, 41, 59, 125, 10>>,
     kids |-> <<
        Node("line_comment", 0, 4, <<>>, <<>>),
        Node("function_item", 5, 26, <<"name", "parameters", "body">>,
          <<
            Node("identifier", 8, 9, <<>>, <<>>),
            Node("parameters", 9, 11, <<>>, <<>>),
            Node("block", 11, 26, <<"", "", "">>,
              <<
                Node("expression_statement", 12, 16, <<"">>,
                  <<
                    Node("call_expression", 12, 15, <<"function", "arguments">>,
                      <<
                        Node("identifier", 12, 13, <<>>, <<>>),
                        Node("arguments", 13, 15, <<>>, <<>>)>>)>>),
                Node("block_comment", 16, 21, <<>>, <<>>),
                Node("expression_statement", 21, 25, <<"">>,
                  <<
                    Node("call_expression", 21, 24, <<"function", "arguments">>,
                      <<
                        Node("identifier", 21, 22, <<>>, <<>>),
                        Node("arguments", 22, 24, <<>>, <<>>)>>)>>)>>)>>)>>]

\* "from w import j\nj()\n"
PyStmtFromAlias ==
    [src |-> <<102, 114, 111, 109, 32, 119, 32, 105, 109, 112, 111, 114, 116, 32, 106, 10, 106, 40, 41, 10>>,
     kids |-> <<
        Node("import_from_statement", 0, 15, <<"module_name", "name">>,
          <<
            Node("dotted_name", 5, 6, <<"">>,
              <<
                Node("identifier", 5, 6, <<>>, <<>>)>>),
            Node("dotted_name", 14, 15, <<"">>,
              <<
                Node("identifier", 14, 15, <<>>, <<>>)>>)>>),
        Node("expression_statement", 16, 19, <<"">>,
          <<
            Node("call", 16, 19, <<"function", "arguments">>,
              <<
                Node("identifier", 16, 17, <<>>, <<>>),
                Node("argument_list", 17, 19, <<>>, <<>>)>>)>>)>>]

\* "use w::j;\nfn h(){j();}\n"
RsItemUseAlias ==
    [src |-> <<117, 115, 101, 32, 119, 58, 58, 106, 59, 10, 102, 110, 32, 104, 40, 41, 123, 106, 40, 41, 59, 125, 10>>,
     kids |-> <<
        Node("use_declaration", 0, 9, <<"argument">>,
          <<
            Node("scoped_identifier", 4, 8, <<"path", "name">>,
              <<
                Node("identifier", 4, 5, <<>>, <<>>),
                Node("identifier", 7, 8, <<>>, <<>>)>>)>>),
        Node("function_item", 10, 22, <<"name", "parameters", "body">>,
          <<
            Node("identifier", 13, 14, <<>>, <<>>),
            Node("parameters", 14, 16, <<>>, <<>>),
            Node("block", 16, 22, <<"">>,
              <<
                Node("expression_statement", 17, 21, <<"">>,
                  <<
                    Node("call_expression", 17, 20, <<"function", "arguments">>,
                      <<
                        Node("identifier", 17, 18, <<>>, <<>>),
                        Node("arguments", 18, 20, <<>>, <<>>)>>)>>)>>)>>)>>]

Fragments(l) ==
    IF l = "py"
    THEN <<PyStmtCall, PyStmtImportAs, PyStmtFromImport, PyStmtImport,
           PyStmtDefImport, PyStmtDecorated, PyStmtIfNested, PyStmtClass,
           PyStmtCommented, PyStmtFromAlias>>
    ELSE <<RsItemFnCall, RsItemUse, RsItemUseList, RsItemUseAs,
           RsItemFnUse, RsItemAttrMod, RsItemIfNested, RsItemImpl,
           RsItemTraitSig, RsItemStruct, RsItemFnMacro, RsItemCommented,
           RsItemUseAlias>>

RECURSIVE Shift(_, _)
\* the node with its span, and its descendants' spans, moved by off bytes
Shift(node, off) ==
    Node(node.kind, node.start + off, node.end + off, node.fld,
         [i \in 1..Len(node.kids) |-> Shift(node.kids[i], off)])

RECURSIVE ProgramSrc(_)
\* the source text of a file: its statements one after the other
ProgramSrc(frags) ==
    IF frags = <<>> THEN <<>> ELSE frags[1].src \o ProgramSrc(Tail(frags))

RECURSIVE ProgramKids(_, _)
\* the nodes of the statements, each moved to where its statement starts
ProgramKids(frags, off) ==
    IF frags = <<>> THEN <<>>
    ELSE [i \in 1..Len(frags[1].kids) |-> Shift(frags[1].kids[i], off)]
         \o ProgramKids(Tail(frags), off + Len(frags[1].src))

\* tree.root_node() of the file
ProgramTree(l, frags) ==
    LET kids == ProgramKids(frags, 0)
    IN  Node(IF l = "py" THEN "module" ELSE "source_file",
             0, Len(ProgramSrc(frags)), [i \in 1..Len(kids) |-> ""], kids)

Programs(l) ==
    UNION {{[i \in 1..n |-> Fragments(l)[p[i]]] : p \in [1..n -> 1..Len(Fragments(l))]} :
           n \in 0..MaxStmts}

\* a source and the tree the grammar engine returns for it, or no tree
InitReduce ==
    /\ rd_lang \in {"py", "rs"}
    /\ \E prog \in Programs(rd_lang) :
          /\ rd_src = ProgramSrc(prog)
          /\ rd_tree \in {[tag |-> "Some", val |-> ProgramTree(rd_lang, prog)]}
                         \cup (IF prog = <<>> THEN {None} ELSE {})
    /\ rd_out = None
    /\ rd_pc = "ready"
    /\ MetaIdle /\ CleanIdle /\ BatchIdle /\ ResolveIdle /\ CliIdle /\ QualifyIdle

PyParse ==
    /\ rd_pc = "ready" /\ rd_lang = "py"
    /\ rd_out' = py_parse(rd_tree, rd_src)
    /\ rd_pc' = "done"
    /\ UNCHANGED <<rd_lang, rd_src, rd_tree, msVars, clVars, coVars, rvVars, cliVars, qfVars>>

RsParse ==
    /\ rd_pc = "ready" /\ rd_lang = "rs"
    /\ rd_out' = rs_parse(rd_tree, rd_src)
    /\ rd_pc' = "done"
    /\ UNCHANGED <<rd_lang, rd_src, rd_tree, msVars, clVars, coVars, rvVars, cliVars, qfVars>>

NextReduce == PyParse \/ RsParse

SpecReduce == InitReduce /\ [][NextReduce]_vars

\* the reducer returned a tree
Reduced == rd_pc = "done" /\ rd_out.tag = "Ok"

\* the call names of a result, in preorder
CallNamesOf(nodes) ==
    LET calls == SelectSeq(Preorder(nodes, 1), LAMBDA e : e.node.tag = "Call")
    IN  [i \in 1..Len(calls) |-> calls[i].node.val]

----------------------------------------------------------------------------
\* Properties of the reducers (SpecReduce)

ImportKinds(l) ==
    IF l = "py" THEN {"import_statement", "import_from_statement", "future_import_statement"}
    ELSE {"use_declaration"}

\* the constructs the reducers are to drop: decorators and attributes,
\* module declarations, import and use statements
InertKinds(l) ==
    ImportKinds(l) \cup (IF l = "py" THEN {"decorator"}
                         ELSE {"attribute_item", "inner_attribute_item", "mod_item"})

CallKinds(l) == IF l = "py" THEN {"call"} ELSE {"call_expression", "macro_invocation"}

DeclKinds(l) ==
    IF l = "py" THEN {"function_definition", "class_definition"}
    ELSE {"function_item", "struct_item", "enum_item", "type_item", "trait_item", "impl_item"}

RECURSIVE CountBelow(_, _, _, _)
\* how many nodes below node are of a kind in kinds, not looking below a
\* node of a kind in stop, nor below a counted node of a kind in leaf
CountBelow(node, kinds, stop, leaf) ==
    SumSeq([i \in 1..Len(node.kids) |->
        LET k == node.kids[i]
        IN  IF k.kind \in stop THEN 0
            ELSE IF k.kind \in kinds /\ k.kind \in leaf THEN 1
            ELSE (IF k.kind \in kinds THEN 1 ELSE 0) + CountBelow(k, kinds, stop, leaf)])

RECURSIVE StripKinds(_, _)
\* the tree without its nodes of a kind in kinds (and what is below them)
StripKinds(node, kinds) ==
    LET keep == SelectSeq([i \in 1..Len(node.kids) |-> i],
                          LAMBDA i : node.kids[i].kind \notin kinds)
    IN  Node(node.kind, node.start, node.end,
             [n \in 1..Len(keep) |-> node.fld[keep[n]]],
             [n \in 1..Len(keep) |-> StripKinds(node.kids[keep[n]], kinds)])

RECURSIVE StripNestedImports(_, _, _)
\* the tree without the import statements that lie in a function or class
\* body (Python), or anywhere but directly below the root (Rust); nested
\* tells whether node is such a place
StripNestedImports(node, l, nested) ==
    LET keep == SelectSeq([i \in 1..Len(node.kids) |-> i],
                          LAMBDA i : ~(nested /\ node.kids[i].kind \in ImportKinds(l)))
    IN  Node(node.kind, node.start, node.end,
             [n \in 1..Len(keep) |-> node.fld[keep[n]]],
             [n \in 1..Len(keep) |->
                StripNestedImports(node.kids[keep[n]], l,
                    IF l = "py"
                    THEN nested \/ node.kids[keep[n]].kind \in DeclKinds(l)
                    ELSE TRUE)])

Root == rd_tree.val

collect_imports(l, root, src) ==
    IF l = "py" THEN py_collect_imports(root, src) ELSE rs_collect_imports(root, src)

walk(l, node, src, imports) ==
    IF l = "py" THEN py_walk(node, src, imports) ELSE rs_walk(node, src, imports)

\* the entries the collection pass of the code makes, in source order
CollectedEntries(l, root, src) ==
    IF l = "py" THEN py_collect_imports_inner(root, src)
    ELSE Flat([i \in 1..Len(root.kids) |->
            IF root.kids[i].kind = "use_declaration"
            THEN Flat([j \in 1..Len(root.kids[i].kids) |->
                    rs_collect_use_tree(root.kids[i].kids[j], src, <<>>)])
            ELSE <<>>])

RECURSIVE DeclaredEntries(_, _)
\* the bindings the module-level import declarations of a Python file make,
\* in source order: those of the code, and for a plain `import x.y` the
\* binding of x to x
DeclaredEntries(node, src) ==
    Flat([i \in 1..Len(node.kids) |->
        LET child == node.kids[i]
        IN  CASE child.kind = "import_statement" ->
                    Flat([j \in 1..Len(child.kids) |->
                        LET n == child.kids[j]
                            t == UnwrapOrEmpty(utf8_text(n, src))
                            h == SegmentBefore(t, FirstSep(t, {Dot}))
                        IN  IF n.kind = "aliased_import"
                            THEN <<<<field_text(n, "alias", src), field_text(n, "name", src)>>>>
                            ELSE IF n.kind = "dotted_name" THEN <<<<h, h>>>>
                            ELSE <<>>])
              [] child.kind = "import_from_statement" -> py_import_from_statement(child, src)
              [] child.kind \in DeclKinds("py") -> <<>>
              [] OTHER -> DeclaredEntries(child, src)])

\* the table in which, for every local name, the last entry wins
LastWins(entries) ==
    [k \in {entries[i][1] : i \in 1..Len(entries)} |->
        entries[CHOOSE i \in 1..Len(entries) :
                    /\ entries[i][1] = k
                    /\ \A j \in (i + 1)..Len(entries) : entries[j][1] # k][2]]

\* C14 as stated: every call of the file, wherever it stands, is resolved
\* against the table in which each local name has the qualified path of the
\* last import declaration of the file that binds it.
C14_Original ==
    Reduced =>
        rd_out.val = walk(rd_lang, Root, rd_src,
                          LastWins(IF rd_lang = "py" THEN DeclaredEntries(Root, rd_src)
                                   ELSE CollectedEntries(rd_lang, Root, rd_src)))

\* what holds in the code: the same with the declarations the collection
\* pass reads, which leaves out the plain `import x` of Python
C14_LastCollectedWins ==
    Reduced =>
        rd_out.val = walk(rd_lang, Root, rd_src,
                          LastWins(CollectedEntries(rd_lang, Root, rd_src)))

\* a call, then two imports that bind its name to different paths: the
\* call is resolved against the second
C14_CallBeforeImportsReached ==
    /\ Reduced
    /\ Len(Root.kids) = 3
    /\ Root.kids[1].kind \notin ImportKinds(rd_lang)
    /\ Root.kids[2].kind \in ImportKinds(rd_lang)
    /\ Root.kids[3].kind \in ImportKinds(rd_lang)
    /\ Len(CollectedEntries(rd_lang, Root, rd_src)) = 2
    /\ CollectedEntries(rd_lang, Root, rd_src)[1][2] # CollectedEntries(rd_lang, Root, rd_src)[2][2]
    /\ \E i \in 1..Len(CallNamesOf(rd_out.val)) :
          CallNamesOf(rd_out.val)[i] = CollectedEntries(rd_lang, Root, rd_src)[2][2]

\* the Python file "from k import w / import w / w()": the call keeps the
\* path of the first import
C14_PlainImportIgnored ==
    /\ Reduced /\ rd_lang = "py"
    /\ rd_src = PyStmtFromImport.src \o PyStmtImport.src \o PyStmtCall.src
    /\ CallNamesOf(rd_out.val) = << <<107, 46, 119>> >>

\* C15: an import statement in a Python function or class body, or a Rust
\* use declaration anywhere but directly below the root, adds nothing to
\* the alias table and changes no node of the result: the table and the
\* result are those of the file without these statements.
C15_NestedImportsIgnored ==
    Reduced =>
        LET outer == StripNestedImports(Root, rd_lang, FALSE)
        IN  /\ collect_imports(rd_lang, Root, rd_src) = collect_imports(rd_lang, outer, rd_src)
            /\ rd_out = lang_parse(rd_lang, [tag |-> "Some", val |-> outer], rd_src)

\* a top-level import of w, and a function that imports w from elsewhere
\* and calls it: the call gets the path of the top-level import
C15_Witness ==
    /\ Reduced
    /\ StripNestedImports(Root, rd_lang, FALSE) # Root
    /\ Len(CollectedEntries(rd_lang, Root, rd_src)) = 1
    /\ \E i \in 1..Len(Preorder(rd_out.val, 1)) :
          LET e == Preorder(rd_out.val, 1)[i]
          IN  /\ e.depth = 2 /\ e.node.tag = "Call"
              /\ e.node.val = CollectedEntries(rd_lang, Root, rd_src)[1][2]

CountTag(nodes, tags) == Len(SelectSeq(Preorder(nodes, 1), LAMBDA e : e.node.tag \in tags))

\* C19 as stated: every call node and every function or type declaration
\* of the tree outside the dropped constructs has its node in the result.
C19_Original ==
    Reduced =>
        /\ CountTag(rd_out.val, {"Call"})
              >= CountBelow(Root, CallKinds(rd_lang), InertKinds(rd_lang), {})
        /\ CountTag(rd_out.val, {"Function", "Type"})
              >= CountBelow(Root, DeclKinds(rd_lang), InertKinds(rd_lang), {})

\* what holds in the code: the calls outside the constructs the code drops
\* and outside every other call are found, and so are the declarations
C19_CallsInsideCallsLost ==
    Reduced =>
        /\ CountTag(rd_out.val, {"Call"})
              = CountBelow(Root, CallKinds(rd_lang),
                           InertKinds(rd_lang) \ {"decorator"}, CallKinds(rd_lang))
        /\ CountTag(rd_out.val, {"Function", "Type"})
              = CountBelow(Root, DeclKinds(rd_lang), InertKinds(rd_lang), {})

\* a call under an if, found, with a call among its arguments, lost
C19_NestedCallReached ==
    /\ Reduced
    /\ CountBelow(Root, {"if_statement", "if_expression"}, {}, {}) = 1
    /\ CountTag(rd_out.val, {"Call"}) = 2
    /\ CountBelow(Root, CallKinds(rd_lang), InertKinds(rd_lang), {}) = 3

\* C20 as stated: no node of the result comes from an attribute or a
\* decorator, a module declaration or an import or use statement, or from
\* below one: the result is that of the tree without these constructs.
C20_Original ==
    Reduced =>
        rd_out.val = walk(rd_lang, StripKinds(Root, InertKinds(rd_lang)), rd_src,
                          collect_imports(rd_lang, Root, rd_src))

\* what holds in the code: the same, but for the Python decorators
C20_InertDroppedButDecorators ==
    Reduced =>
        rd_out.val = walk(rd_lang, StripKinds(Root, InertKinds(rd_lang) \ {"decorator"}),
                          rd_src, collect_imports(rd_lang, Root, rd_src))

\* the Python file "@w() / def h(): pass": the decorator's call is a node
\* of the result
C20_DecoratorCallEmitted ==
    /\ Reduced /\ rd_lang = "py"
    /\ rd_src = PyStmtDecorated.src
    /\ Len(rd_out.val) = 2
    /\ rd_out.val[1].node = ASTNode("Call", <<119>>)
    /\ rd_out.val[2].node = ASTNode("Function", <<104>>)

\* a Rust file with an attribute and a module that holds a function and a
\* call: nothing of them is in the result
C20_RustModuleDropped ==
    /\ Reduced /\ rd_lang = "rs"
    /\ rd_src = RsItemAttrMod.src
    /\ rd_out.val = <<>>

\* the declaration forms of the grammars: those the reducers have an arm
\* for, and the method signature of a Rust trait
DeclForms(l) == DeclKinds(l) \cup (IF l = "rs" THEN {"function_signature_item"} ELSE {})

RECURSIVE NodesBelow(_, _, _)
\* the nodes below node of a kind in kinds, in document order, not looking
\* below a node of a kind in stop
NodesBelow(node, kinds, stop) ==
    Flat([i \in 1..Len(node.kids) |->
        LET k == node.kids[i]
        IN  IF k.kind \in stop THEN <<>>
            ELSE (IF k.kind \in kinds THEN <<k>> ELSE <<>>) \o NodesBelow(k, kinds, stop)])

\* the entry at position i of a preorder listing has no children
Childless(pre, i) == i = Len(pre) \/ pre[i + 1].depth <= pre[i].depth

\* the declaration n has a node of its own in the result, without children
HasBodilessNode(n) ==
    LET pre == Preorder(rd_out.val, 1)
    IN  \E j \in 1..Len(pre) :
            /\ pre[j].node.tag \in {"Function", "Type"}
            /\ pre[j].node.val = field_text(n, "name", rd_src)
            /\ pre[j].metadata = meta(n, rd_src)
            /\ Childless(pre, j)

Bodiless(forms) ==
    SelectSeq(NodesBelow(Root, forms, InertKinds(rd_lang)),
              LAMBDA n : child_by_field_name(n, "body") = None)

C21_StructCaptured ==
    /\ Reduced /\ rd_lang = "rs"
    /\ rd_src = RsItemStruct.src
    /\ rd_out.val = <<Syntax(ASTNode("Type", <<83>>), meta(Root.kids[1], rd_src), <<>>)>>

RECURSIVE OutermostBelow(_, _, _)
\* the nodes below node of a kind in kinds, in document order, not looking
\* below them nor below a node of a kind in stop
OutermostBelow(node, kinds, stop) ==
    Flat([i \in 1..Len(node.kids) |->
        LET k == node.kids[i]
        IN  IF k.kind \in stop THEN <<>>
            ELSE IF k.kind \in kinds THEN <<k>>
            ELSE OutermostBelow(k, kinds, stop)])

\* the macro invocations the walk of a Rust file visits, in document order:
\* those outside the dropped constructs and outside every call
VisitedMacros ==
    OutermostBelow(Root, {"macro_invocation"}, InertKinds("rs") \cup {"call_expression"})

VisitedCalls ==
    OutermostBelow(Root, {"call_expression"}, InertKinds("rs") \cup {"macro_invocation"})

\* the text ends with "!"
EndsWithBang(s) == Len(s) >= 1 /\ s[Len(s)] = 33

\* the path of a macro invocation, resolved as a call target is
ResolvedMacroPath(n) ==
    LET m == child_by_field_name(n, "macro")
    IN  rs_resolve_call(IF m.tag = "Some" THEN rs_scoped_path(m.val, rd_src) ELSE <<>>,
                        collect_imports("rs", Root, rd_src))

\* the Call nodes of the result whose name ends with "!", as pairs of name
\* and metadata, in preorder
BangedCalls ==
    LET banged == SelectSeq(Preorder(rd_out.val, 1),
                            LAMBDA e : e.node.tag = "Call" /\ EndsWithBang(e.node.val))
    IN  [i \in 1..Len(banged) |-> <<banged[i].node.val, banged[i].metadata>>]

PlainCalls ==
    LET plain == SelectSeq(Preorder(rd_out.val, 1),
                           LAMBDA e : e.node.tag = "Call" /\ ~EndsWithBang(e.node.val))
    IN  [i \in 1..Len(plain) |-> plain[i].metadata]

\* what the macro invocations ms give: their alias-resolved path followed
\* by "!", with their span
AsBangedCalls(ms) ==
    [i \in 1..Len(ms) |-> <<ResolvedMacroPath(ms[i]) \o <<33>>, meta(ms[i], rd_src)>>]

C22_MacroInCallLost ==
    /\ Reduced /\ rd_lang = "rs"
    /\ rd_src = RsItemFnMacro.src
    /\ Len(rd_out.val) = 1
    /\ CallNamesOf(rd_out.val[1].contains) = << <<119, 58, 58, 103, 33>>, <<119>> >>

C22_ScopedMacroResolved ==
    /\ Reduced /\ rd_lang = "rs"
    /\ \E i \in 1..Len(Preorder(rd_out.val, 1)) :
          Preorder(rd_out.val, 1)[i].node
              = ASTNode("Call", <<113, 58, 58, 119, 58, 58, 103, 33>>)

----------------------------------------------------------------------------
\* Independence of the workers (Spec)

\* the tree of a file as a function of the language, of the file's
\* root-relative path and of its content alone
FileTree(l, rel_path, content) ==
    LET source == Catalogue(l)[content].src
        ast    == lang_parse(l, [tag |-> "Some", val |-> Catalogue(l)[content].tree], source)
    IN  clean(rel_path, source, ast.val)

\* C23: in every batch that succeeds, under every interleaving of the
\* workers, the tree of each file is the one function of its root-relative
\* path and content, so two successful batches that hold the file give it
\* the same tree whatever the other files contain.
C23_TreeDependsOnOwnFileOnly ==
    (Returned /\ ~WalkFailed /\ outcome.tag = "Ok") =>
        /\ Len(outcome.val) = Len(files)
        /\ \A i \in Items :
              outcome.val[i] = FileTree(lang, files[i].rel_path, OnDisk(i).content)

\* a successful batch on several threads in which a file without imports
\* was finished after a later file, next to a file that holds imports
C23_Witness ==
    /\ Returned /\ ~WalkFailed /\ outcome.tag = "Ok"
    /\ NumThreads(jobs) > 1
    /\ \E i, j \in Items :
          /\ i # j
          /\ OnDisk(i).content = 2 /\ OnDisk(j).content = 1
          /\ outcome.val[i] # outcome.val[j]
    /\ \E m, n \in 1..Len(done_order) : m < n /\ done_order[m] > done_order[n]

----------------------------------------------------------------------------
\* The command line (main.rs run) and fs::write_file (SpecRun)

MaxRunFiles == 2

batchState == <<root_kind, disk, mode, lang, jobs, files, st, slot, full, saved_error,
                done_order, outcome>>
destState == <<dest, dest0, tmp, writes>>
argsState == <<args_output, args_force, args_dry_run>>
otherState == <<msVars, clVars, rvVars, rdVars, qfVars>>

\* the path argument names a directory, a file, nothing, or something that
\* is neither a file nor a directory; folder/recursive are not yet called
InitRun ==
    /\ lang \in {"py", "rs"}
    /\ mode \in {"folder", "recursive"}
    /\ jobs \in 0..MaxJobs
    /\ root_kind \in {"dir", "file", "missing", "special"}
    /\ disk \in (IF root_kind = "dir"
                 THEN {d \in DirDisks(lang) : Cardinality(DOMAIN d) <= MaxRunFiles + 1}
                 ELSE IF root_kind = "file" THEN FileDisks(lang)
                 ELSE {<<>>})
    /\ files = <<>> /\ st = <<>> /\ slot = <<>>
    /\ full = FALSE /\ saved_error = None /\ done_order = <<>>
    /\ outcome = None
    /\ phase = "cli"
    /\ args_output \in BOOLEAN /\ args_force \in BOOLEAN /\ args_dry_run \in BOOLEAN
    /\ run_pc = "validate" /\ run_result = None
    /\ dest0 \in (IF args_output THEN {"absent", "old"} ELSE {"absent"})
    /\ dest = dest0 /\ tmp = "none" /\ writes = 0
    /\ MetaIdle /\ CleanIdle /\ ResolveIdle /\ ReduceIdle /\ QualifyIdle

\* run() returns r
RunEnds(r) == run_result' = r /\ run_pc' = "done"

\* fs::validate_path(&args.path)?, then the test of args.dry_run and the
\* build of the thread pool
Validate ==
    /\ run_pc = "validate"
    /\ IF root_kind \in {"missing", "special"}
       THEN /\ RunEnds(Err(BoloError("InvalidPath", PathDisplay(Path(TRUE, RootComps)),
                                     IF root_kind = "missing" THEN "os error"
                                     ELSE "not a file or directory")))
            /\ phase' = phase
       ELSE IF args_dry_run
       THEN run_pc' = "dry_run" /\ run_result' = run_result /\ phase' = phase
       ELSE run_pc' = "batch" /\ run_result' = run_result /\ phase' = "start"
    /\ UNCHANGED <<batchState, destState, argsState, otherState>>

\* what fs::walk_dir can return to the dry run
DryRunWalks ==
    IF root_kind = "file"
          /\ walk_dir_file(CHOOSE k \in DOMAIN disk : TRUE, ExtOf(lang)).tag = "Err"
    THEN {Err(walk_dir_file(CHOOSE k \in DOMAIN disk : TRUE, ExtOf(lang)).err)}
    ELSE {Ok(<<>>),
          Err(BoloError("Walk", PathDisplay(Path(TRUE, RootComps)), "os error"))}

\* the dry run: walk, print the count, return
DryRun ==
    /\ run_pc = "dry_run"
    /\ \E r \in DryRunWalks : RunEnds(r)
    /\ UNCHANGED <<batchState, phase, destState, argsState, otherState>>

\* the `?` on the result of folder/recursive
AfterBatch ==
    /\ run_pc = "batch" /\ phase = "returned"
    /\ IF outcome.tag = "Err" THEN RunEnds(Err(outcome.err))
       ELSE run_pc' = "serialize" /\ run_result' = run_result
    /\ UNCHANGED <<batchState, phase, destState, argsState, otherState>>

\* serde_json::to_string_pretty(&result)?: strings and structs of numbers
\* always serialize
Serialize ==
    /\ run_pc = "serialize"
    /\ run_pc' = "output" /\ run_result' = run_result
    /\ UNCHANGED <<batchState, phase, destState, argsState, otherState>>

\* the match on args.output with the test of out.exists() && !args.force,
\* and none at all
Output_without_exists_test ==
    /\ run_pc = "output"
    /\ IF ~args_output THEN RunEnds(Ok(<<>>))
       ELSE run_pc' = "wf_ensure_dir" /\ run_result' = run_result
    /\ UNCHANGED <<batchState, phase, destState, argsState, otherState>>

Output ==
    /\ run_pc = "output"
    /\ IF ~args_output THEN RunEnds(Ok(<<>>))
       ELSE IF dest # "absent" /\ ~args_force
       THEN RunEnds(Err(BoloError("Exists", <<111>>, "")))
       ELSE run_pc' = "wf_ensure_dir" /\ run_result' = run_result
    /\ UNCHANGED <<batchState, phase, destState, argsState, otherState>>

\* write_file: ensure_dir(parent)
WfEnsureDir ==
    /\ run_pc = "wf_ensure_dir"
    /\ run_pc' = "wf_new_tmp"
    /\ UNCHANGED <<run_result, batchState, phase, destState, argsState, otherState>>

\* write_file: NamedTempFile::new_in(parent)
WfNewTmp ==
    /\ run_pc = "wf_new_tmp"
    /\ tmp' = "empty"
    /\ run_pc' = "wf_write_all"
    /\ UNCHANGED <<run_result, batchState, phase, dest, dest0, writes, argsState, otherState>>

\* write_file: a write_all that writes into the destination itself
WfWriteAll_in_place ==
    /\ run_pc = "wf_write_all"
    /\ dest' = "partial" /\ tmp' = "full"
    /\ run_pc' = "wf_persist"
    /\ UNCHANGED <<run_result, batchState, phase, dest0, writes, argsState, otherState>>

\* write_file: tmp.write_all(content): a first write, then the rest
WfWriteAll ==
    /\ run_pc = "wf_write_all"
    /\ IF tmp = "empty" THEN tmp' = "partial" /\ run_pc' = run_pc
       ELSE tmp' = "full" /\ run_pc' = "wf_persist"
    /\ UNCHANGED <<run_result, batchState, phase, dest, dest0, writes, argsState, otherState>>

\* write_file: tmp.persist(path), the rename of the temporary file
WfPersist ==
    /\ run_pc = "wf_persist"
    /\ dest' = "new" /\ tmp' = "none" /\ writes' = writes + 1
    /\ run_pc' = "wf_return"
    /\ UNCHANGED <<run_result, batchState, phase, dest0, argsState, otherState>>

\* write_file returns Ok and run reports the success
WfReturn ==
    /\ run_pc = "wf_return"
    /\ RunEnds(Ok(<<>>))
    /\ UNCHANGED <<batchState, phase, destState, argsState, otherState>>

WfSteps == {"wf_ensure_dir", "wf_new_tmp", "wf_write_all", "wf_persist"}

\* a step of write_file fails: the map_err to BoloError::Write, and the
\* temporary file is removed when it is dropped
WfFails ==
    /\ run_pc \in WfSteps
    /\ RunEnds(Err(BoloError("Write", <<111>>, "os error")))
    /\ tmp' = "none"
    /\ UNCHANGED <<batchState, phase, dest, dest0, writes, argsState, otherState>>

\* the process dies inside write_file: nothing is cleaned up
Crash ==
    /\ run_pc \in WfSteps \cup {"wf_return"}
    /\ run_pc' = "crashed"
    /\ UNCHANGED <<run_result, batchState, phase, destState, argsState, otherState>>

NextRun ==
    \/ Validate
    \/ DryRun
    \/ Next
    \/ AfterBatch
    \/ Serialize
    \/ Output
    \/ WfEnsureDir
    \/ WfNewTmp
    \/ WfWriteAll
    \/ WfPersist
    \/ WfReturn
    \/ WfFails
    \/ Crash

SpecRun == InitRun /\ [][NextRun]_vars

\* Properties of the run

RunDone == run_pc = "done"

\* the batch of the run succeeded: every selected file has been read,
\* reduced and normalized
BatchSucceeded ==
    /\ phase = "returned" /\ outcome.tag = "Ok"
    /\ \A i \in 1..Len(files) : st[i] = "ok" /\ slot[i].tag = "Ok"

RunFailed == RunDone /\ run_result.tag = "Err"

\* the destination is replaced at most once, and only after the batch has
\* succeeded and the collection has been serialized
WrittenOnceAfterBatch ==
    /\ writes <= 1
    /\ (writes > 0 \/ dest # dest0) =>
          /\ BatchSucceeded
          /\ run_pc \in {"wf_return", "done", "crashed"}

C24_ExistsRefused ==
    /\ RunDone /\ BatchSucceeded
    /\ run_result.tag = "Err" /\ run_result.err.kind = "Exists"
    /\ dest = "old"

\* a dry run that ends without error although the destination exists and
\* no overwrite directive was given
C24_DryRunOverExisting ==
    /\ RunDone /\ args_dry_run /\ run_result.tag = "Ok"
    /\ args_output /\ ~args_force /\ dest0 = "old" /\ dest = "old"

\* C25: at every point of write_file, a crash or an error at any step
\* included, the destination holds what it held before or the complete new
\* content, never a partial one; it changes only by the rename of the
\* completely written temporary file, and after an error return it holds
\* what it held before.
C25_WriteAtomic ==
    /\ dest \in {dest0, "new"}
    /\ dest # "partial"
    /\ (run_pc \in WfSteps) => dest = dest0
    /\ (RunFailed /\ run_result.err.kind = "Write") => (dest = dest0 /\ writes = 0)
    /\ (dest = "new") => (writes = 1 /\ tmp = "none")

\* the process died with half of the content in the temporary file, and
\* the destination still holds the old content
C25_Witness ==
    /\ run_pc = "crashed" /\ tmp = "partial"
    /\ dest0 = "old" /\ dest = "old"

\* write_file returned an error after the content was written to the
\* temporary file: the rename failed
C25_PersistFailed ==
    /\ RunFailed /\ run_result.err.kind = "Write"
    /\ BatchSucceeded /\ dest0 = "old" /\ dest = "old" /\ tmp = "none"

\* the process died after the rename
C25_CrashAfterPersist ==
    /\ run_pc = "crashed" /\ dest0 = "old" /\ dest = "new" /\ tmp = "none"

----------------------------------------------------------------------------
\* Order of the nodes (SpecReduce)

RECURSIVE Descendants(_)
\* the nodes below node in document order (preorder)
Descendants(node) ==
    Flat([i \in 1..Len(node.kids) |-> <<node.kids[i]>> \o Descendants(node.kids[i])])

\* the kinds of syntax node a node of the result with this tag can come from
KindsOfTag(l, tag) ==
    CASE tag = "Call" -> CallKinds(l)
      [] tag = "Function" -> {"function_definition", "function_item"}
      [] tag = "Type" -> DeclKinds(l) \ {"function_definition", "function_item"}
      [] tag = "Comment" -> {"comment", "line_comment", "block_comment", "expression_statement"}
      [] OTHER -> {}

ComesFrom(o, n) ==
    /\ n.kind \in KindsOfTag(rd_lang, o.node.tag)
    /\ o.metadata = meta(n, rd_src)

RECURSIVE InDocumentOrder(_, _)
\* the nodes outs come, one after the other, from syntax nodes met in this
\* order in the document-ordered list cands, and the children of each from
\* the nodes below the one it comes from, in the same way
InDocumentOrder(outs, cands) ==
    IF outs = <<>> THEN TRUE
    ELSE LET from  == {n \in 1..Len(cands) : ComesFrom(outs[1], cands[n])}
             first == CHOOSE x \in from : \A y \in from : x <= y
         IN  /\ from # {}
             /\ InDocumentOrder(outs[1].contains, Descendants(cands[first]))
             /\ InDocumentOrder(Tail(outs), SubSeq(cands, first + 1, Len(cands)))

RECURSIVE WithoutComments(_)
\* the nodes without the Comment nodes, at every level, in their order
WithoutComments(nodes) ==
    Flat([i \in 1..Len(nodes) |->
        IF nodes[i].node.tag = "Comment" THEN <<>>
        ELSE <<Syntax(nodes[i].node, nodes[i].metadata, WithoutComments(nodes[i].contains))>>])

\* what clean makes of the result of the reducer, for a file a.x; the
\* source, which clean reads for the metadata of the File node only, is
\* left empty
Cleaned == clean(Path(FALSE, << <<97, 46, 120>> >>), <<>>, rd_out.val)

\* C26: the top-level list and every children list of a reducer are in
\* document order, and what clean returns is the File node, the one
\* aggregated Comment if there is one, and then the non-comment nodes of
\* the reducer in their order at every level.
C26_DocumentOrderKept ==
    Reduced =>
        /\ InDocumentOrder(rd_out.val, Descendants(Root))
        /\ Cleaned[1].node.tag = "File"
        /\ (IF Len(Cleaned) >= 2 /\ Cleaned[2].node = CommentNode
            THEN SubSeq(Cleaned, 3, Len(Cleaned))
            ELSE Tail(Cleaned)) = WithoutComments(rd_out.val)

\* a file with a comment, then a function that holds a call, a comment and
\* a call, then another statement: the comments are hoisted, the rest
\* keeps its order
C26_Witness ==
    /\ Reduced
    /\ Len(rd_out.val) >= 3
    /\ rd_out.val[1].node = CommentNode
    /\ rd_out.val[2].node.tag = "Function"
    /\ Len(rd_out.val[2].contains) = 3
    /\ rd_out.val[2].contains[2].node = CommentNode
    /\ rd_out.val[3].node.tag \in {"Call", "Type"}
    /\ Cleaned[2].node = CommentNode
    /\ Len(Cleaned) = Len(rd_out.val) + 1
    /\ Len(Cleaned[3].contains) = 2

----------------------------------------------------------------------------
\* Determinism of the batch (Spec)

\* what strictly sequential processing in input order returns: the trees,
\* or the error of the first file that fails
SequentialOutcome ==
    IF Faulty = {} THEN Ok([i \in Items |-> SequentialTree(i)])
    ELSE LET i == CHOOSE x \in Faulty : \A y \in Faulty : x <= y
         IN  Err(process_file(files[i], OnDisk(i), lang).err)

\* the items whose closure returned an error, in the order they returned
FailedInTime == SelectSeq(done_order, LAMBDA i : slot[i].tag = "Err")

\* C27 as stated: for every interleaving and every number of threads the
\* batch returns what sequential processing in input order returns, and so
\* the error of the first failing file in input order.
C27_Original ==
    (Returned /\ ~WalkFailed) => outcome = SequentialOutcome

\* what holds in the code: a batch without failing file returns the trees
\* in input order for every interleaving; a batch with failing files
\* returns the error of the file that failed first in time, which is the
\* first in input order when the pool has one thread.
C27_FirstErrorInTime ==
    (Returned /\ ~WalkFailed) =>
        /\ Faulty = {} => outcome = SequentialOutcome
        /\ Faulty # {} =>
              /\ FailedInTime # <<>>
              /\ outcome = Err(slot[FailedInTime[1]].err)
        /\ NumThreads(jobs) = 1 => outcome = SequentialOutcome

\* two files fail, on two threads the second in input order fails first,
\* and its error is returned
C27_Witness ==
    /\ Returned /\ ~WalkFailed
    /\ NumThreads(jobs) > 1
    /\ Len(FailedInTime) = 2
    /\ FailedInTime[1] > FailedInTime[2]
    /\ outcome = Err(slot[FailedInTime[1]].err)
    /\ outcome # SequentialOutcome

\* one thread, two failing files: the first in input order is returned and
\* the second is never read
C27_SequentialFirstError ==
    /\ Returned /\ ~WalkFailed
    /\ NumThreads(jobs) = 1
    /\ Cardinality(Faulty) = 2
    /\ Len(FailedInTime) = 1
    /\ outcome = SequentialOutcome

----------------------------------------------------------------------------
\* SpecQualify: qualify(prefix, name) of both reducers on every prefix and
\* name over the alphabet of names

InitQualify ==
    /\ qf_lang \in {"py", "rs"}
    /\ qf_prefix \in SeqsUpTo(NameAlphabet, MaxNameLen)
    /\ qf_name \in SeqsUpTo(NameAlphabet, MaxNameLen)
    /\ qf_out = <<>>
    /\ qf_pc = "ready"
    /\ MetaIdle /\ CleanIdle /\ BatchIdle /\ ResolveIdle /\ ReduceIdle /\ CliIdle

PyQualify ==
    /\ qf_pc = "ready" /\ qf_lang = "py"
    /\ qf_out' = py_qualify(qf_prefix, qf_name)
    /\ qf_pc' = "done"
    /\ UNCHANGED <<qf_lang, qf_prefix, qf_name, msVars, clVars, coVars, rvVars, rdVars, cliVars>>

RsQualify ==
    /\ qf_pc = "ready" /\ qf_lang = "rs"
    /\ qf_out' = rs_qualify(qf_prefix, qf_name)
    /\ qf_pc' = "done"
    /\ UNCHANGED <<qf_lang, qf_prefix, qf_name, msVars, clVars, coVars, rvVars, rdVars, cliVars>>

NextQualify == PyQualify \/ RsQualify

SpecQualify == InitQualify /\ [][NextQualify]_vars

----------------------------------------------------------------------------
\* Precedence of "::" over "." in the Rust resolve_call (SpecResolve)

\* the name holds the separator
Holds(name, sep) == \E i \in 1..Len(name) : IsPrefixAt(name, sep, i)

\* name = h sep t with no sep starting within h; {} when the name does
\* not hold sep
CutsAt(name, sep) ==
    {c \in [h : {SubSeq(name, 1, i) : i \in 0..Len(name)},
            t : {SubSeq(name, i, Len(name)) : i \in 1..(Len(name) + 1)}] :
        /\ name = c.h \o sep \o c.t
        /\ \A j \in 1..Len(c.h) : ~IsPrefixAt(name, sep, j)}

\* C29: the Rust reducer cuts a name at its first "::" when it holds one
\* and else at its first "."; the text before the cut is the one key looked
\* up, and on a hit the rest is reattached with the separator of the cut.
\* A name that holds "::" is never cut at a "." (names that start with
\* self, super or crate are returned as they are).
C29_ColonsBeforeDot ==
    (rv_pc = "done" /\ rv_lang = "rs") =>
        LET sep == IF Holds(rv_name, ColonColon) THEN ColonColon ELSE Dot
            cut == CutsAt(rv_name, sep)
        IN  IF cut = {}
            THEN rv_out = (IF rv_name \in DOMAIN rv_imports \ ReservedPrefixes
                           THEN rv_imports[rv_name] ELSE rv_name)
            ELSE \A c \in cut :
                    rv_out = (IF c.h \in DOMAIN rv_imports \ ReservedPrefixes
                              THEN rv_imports[c.h] \o sep \o c.t ELSE rv_name)

\* "a.b::a" with a a key: the head is "a.b", nothing is replaced
C29_DotHeadNotResolved ==
    /\ rv_pc = "done" /\ rv_lang = "rs"
    /\ rv_name = <<97, 46, 98, 58, 58, 97>>
    /\ <<97>> \in DOMAIN rv_imports
    /\ rv_out = rv_name

\* "a::b.a" with a a key: a is replaced and "::b.a" reattached
C29_ColonHeadResolved ==
    /\ rv_pc = "done" /\ rv_lang = "rs"
    /\ rv_name = <<97, 58, 58, 98, 46, 97>>
    /\ <<97>> \in DOMAIN rv_imports
    /\ rv_out = rv_imports[<<97>>] \o <<58, 58, 98, 46, 97>>

\* "a.b" with a a key: without "::" the name is cut at the "."
C29_DotOnlyResolved ==
    /\ rv_pc = "done" /\ rv_lang = "rs"
    /\ rv_name = <<97, 46, 98>>
    /\ <<97>> \in DOMAIN rv_imports
    /\ rv_out = rv_imports[<<97>>] \o <<46, 98>>

----------------------------------------------------------------------------
\* One substitution, no chaining (SpecResolve)

\* resolve_call of the dialect
resolve_call(l, name, imports) ==
    IF l = "py" THEN py_resolve_call(name, imports) ELSE rs_resolve_call(name, imports)

\* the keys k by which out is name with its leading k replaced by the
\* table's path, the rest of the name, empty or from a separator on, kept
ReplacedKeys(l, name, imports, out) ==
    {k \in DOMAIN imports :
        /\ Len(k) <= Len(name)
        /\ SubSeq(name, 1, Len(k)) = k
        /\ Len(k) < Len(name) =>
              \E sep \in Separators(l) : IsPrefixAt(name, sep, Len(k) + 1)
        /\ out = imports[k] \o SubSeq(name, Len(k) + 1, Len(name))}

\* the text before the first separator of the dialect
FirstSegment(l, name) == SegmentBefore(name, FirstSep(name, Separators(l)))

\* C30: the resolved name is the call's name as it is, or the name with
\* its leading key replaced once by the table's path; a path that itself
\* begins with a key is put in as it is.
C30_SingleSubstitution ==
    rv_pc = "done" =>
        \/ rv_out = rv_name
        \/ ReplacedKeys(rv_lang, rv_name, rv_imports, rv_out) # {}

\* the path put in begins with another key of the table, and resolving
\* the resolved name once more changes it again
C30_ResolvedAgainChanges ==
    /\ rv_pc = "done"
    /\ rv_out # rv_name
    /\ ReplacedKeys(rv_lang, rv_name, rv_imports, rv_out) # {}
    /\ FirstSegment(rv_lang, rv_out) \in DOMAIN rv_imports
    /\ resolve_call(rv_lang, rv_out, rv_imports) # rv_out

\* the same in the Rust reducer: "a.a" with a -> "b::q" and b -> "q"
\* resolves to "b::q.a", which would resolve to "q::q.a"
C30_RustResolvedAgainChanges ==
    /\ rv_pc = "done" /\ rv_lang = "rs"
    /\ rv_name = <<97, 46, 97>>
    /\ rv_out = <<98, 58, 58, 113, 46, 97>>
    /\ rv_imports[<<98>>] = <<113>>
    /\ rs_resolve_call(rv_out, rv_imports) = <<113, 58, 58, 113, 46, 97>>

\* the same seen from a file (SpecReduce): with `from w import j` or
\* `use w::j;` in the file, j stands for "w.j" or "w::j" in the table and
\* in every call of j, whatever the file binds w to
C30_TableNotChained ==
    Reduced =>
        LET table == collect_imports(rd_lang, Root, rd_src)
            path  == <<119>> \o (IF rd_lang = "py" THEN Dot ELSE ColonColon) \o <<106>>
            names == CallNamesOf(rd_out.val)
        IN  /\ <<106>> \in DOMAIN table => table[<<106>>] = path
            /\ \A i \in 1..Len(names) :
                  names[i][Len(names[i])] = 106 => names[i] = path

\* a file that binds w to another path and j to a path that begins with w:
\* the call of j is named by j's path as written
C30_AliasOfAliasReached ==
    /\ Reduced
    /\ LET table == collect_imports(rd_lang, Root, rd_src)
           names == CallNamesOf(rd_out.val)
       IN  /\ {<<119>>, <<106>>} \subseteq DOMAIN table
           /\ table[<<119>>] # <<119>>
           /\ \E i \in 1..Len(names) : names[i][Len(names[i])] = 106

\* the separator of the dialect: "." or "::"
SeparatorOf(l) == IF l = "py" THEN <<46>> ELSE <<58, 58>>

\* the prefix ends with the separator
EndsWithSeparator(p, sep) ==
    /\ Len(p) >= Len(sep)
    /\ \A i \in 1..Len(sep) : p[Len(p) - Len(sep) + i] = sep[i]

\* the policy: the bare name for an empty prefix, plain concatenation for
\* a prefix that ends with the separator, one separator in between
\* otherwise
QualifyPolicy(sep, prefix, name) ==
    IF prefix = <<>> THEN name
    ELSE IF EndsWithSeparator(prefix, sep) THEN prefix \o name
    ELSE prefix \o sep \o name

\* C28 as stated: in both reducers qualify follows the policy, with the
\* separator of the dialect.
C28_Original ==
    qf_pc = "done" => qf_out = QualifyPolicy(SeparatorOf(qf_lang), qf_prefix, qf_name)

\* what holds in the code: the Python qualify follows the policy; the Rust
\* qualify returns the bare name for an empty prefix and inserts "::"
\* after every other prefix, also after one that ends with "::"
C28_PolicyInPythonOnly ==
    qf_pc = "done" =>
        /\ qf_lang = "py" => qf_out = QualifyPolicy(<<46>>, qf_prefix, qf_name)
        /\ qf_lang = "rs" =>
              qf_out = (IF qf_prefix = <<>> THEN qf_name
                        ELSE qf_prefix \o <<58, 58>> \o qf_name)

\* Rust qualify("a::", "b") = "a::::b"
C28_RustDoubleSeparator ==
    /\ qf_pc = "done" /\ qf_lang = "rs"
    /\ qf_prefix = <<97, 58, 58>> /\ qf_name = <<98>>
    /\ qf_out = <<97, 58, 58, 58, 58, 98>>

\* Python qualify(".", "a") = ".a"
C28_PythonTrailingDot ==
    /\ qf_pc = "done" /\ qf_lang = "py"
    /\ qf_prefix = <<46>> /\ qf_name = <<97>>
    /\ qf_out = <<46, 97>>

====
